---------------------------- MODULE Spec2Model ----------------------------
(***************************************************************************)
(* zenodo2commons: the URL budgeter (urlTrimmer.js), its two truncation    *)
(* functions, the markup converter (htmlToWiki.js), the app (App.svelte)   *)
(* and the content script of the browser extension (content.js).           *)
(*                                                                         *)
(* A JavaScript string is a sequence of one-character strings; its length  *)
(* is Len.  Every conversion is computed character by character.           *)
(***************************************************************************)
EXTENDS Integers, Sequences, FiniteSets, TLC

VARIABLES
    params,     \* buildConstrainedUploadUrl: the params object of the call
    pc,         \* buildConstrainedUploadUrl: the strategy about to be tried
    url,        \* buildConstrainedUploadUrl: the local `url`
    result,     \* buildConstrainedUploadUrl: what the call returned
    call,       \* truncateTables / truncateDescription: function and arguments
    tpc,        \* truncation call: "ready", "once" (returned), "twice"
    ret,        \* truncation call: the value returned
    ret2,       \* truncation call: the value returned for (ret, maxLength)
    html,       \* cleanDescription: the argument
    htmlTokens, \* cleanDescription: the pieces the argument is written from
    cpc,        \* cleanDescription: the numbered step about to run
    text,       \* cleanDescription: htmlWithoutTables, then `text`
    extractedTables,    \* cleanDescription: the array extractedTables
    converted,  \* cleanDescription: the returned { description, tables }
    record,     \* App.svelte: the record fetched, null before
    apc,        \* App.svelte: what of the record card is rendered next
    authors,    \* App.svelte: the text shown for the authors
    fileCards,  \* App.svelte: the file cards rendered, in order
    page,       \* content.js: the Zenodo page the script runs on
    xpc,        \* content.js: the step of injectButtons about to run
    buttons,    \* content.js: the buttons in the page, with their places
    created,    \* content.js: what a call of createCommonsButton returned
    timers,     \* content.js: the timeouts set and not yet fired or cleared
    observerTimeout,    \* content.js: observer.timeout, 0 for undefined
    zenodoId,   \* App.svelte: the text of the input field
    error,      \* App.svelte: the error message shown, null for none
    loading,    \* App.svelte: the flag that disables the Fetch Record button
    pathname,   \* App.svelte: window.location.pathname
    requests    \* App.svelte: the fetchZenodoRecord calls made, in order

vars ==
    <<params, pc, url, result, call, tpc, ret, ret2, html, htmlTokens, cpc, text,
      extractedTables, converted, record, apc, authors, fileCards, page, xpc, buttons,
      created, timers, observerTimeout, zenodoId, error, loading, pathname, requests>>
budgeterVars == <<params, pc, url, result>>
truncateVars == <<call, tpc, ret, ret2>>
convertVars == <<html, htmlTokens, cpc, text, extractedTables, converted>>
appVars == <<record, apc, authors, fileCards>>
extensionVars == <<page, xpc, buttons, created, timers, observerTimeout>>
fetchVars == <<zenodoId, error, loading, pathname, requests>>

-----------------------------------------------------------------------------
(* Characters *)

\* The printable ASCII characters in code order, U+0020 .. U+007E.  The grave
\* accent cannot be written in a TLA+ string; its place holds "U+0060".
AsciiPrintable ==

    <<" ","!","\"","#","$","%","&","'","(",")","*","+",",","-",".","/","0","1","2","3","4","5",
      "6","7","8","9",":",";","<","=",">","?","@","A","B","C","D","E","F","G","H","I","J","K",
      "L","M","N","O","P","Q","R","S","T","U","V","W","X","Y","Z","[","\\","]","^","_","U+0060","a",
      "b","c","d","e","f","g","h","i","j","k","l","m","n","o","p","q","r","s","t","u","v","w",
      "x","y","z","{","|","}","~">>

NEWLINE == "\n"

\* The UTF-16 code unit of a character (String.prototype.charCodeAt).
CharCode ==
    [c \in {AsciiPrintable[i] : i \in 1..Len(AsciiPrintable)} \cup {NEWLINE} |->
        IF c = NEWLINE THEN 10
        ELSE 31 + (CHOOSE i \in 1..Len(AsciiPrintable) : AsciiPrintable[i] = c)]

HexDigits == <<"0","1","2","3","4","5","6","7","8","9","A","B","C","D","E","F">>

Digits == {"0","1","2","3","4","5","6","7","8","9"}

Letters ==
    {"A","B","C","D","E","F","G","H","I","J","K","L","M","N","O","P","Q","R","S","T","U","V","W","X","Y","Z",
     "a","b","c","d","e","f","g","h","i","j","k","l","m","n","o","p","q","r","s","t","u","v","w","x","y","z"}

-----------------------------------------------------------------------------
(* The strings of the source *)

\* urlTrimmer: the table-open marker looked for by includes()
\* "{| class=\"wikitable\""  (20 characters)
tableOpenMarker ==
    <<"{","|"," ","c","l","a","s","s","=","\"","w","i","k","i","t","a","b","l","e","\"">>

\* truncateTables: truncatedNote (whole tables removed)
\* "\n\n(Tables truncated due to length constraints. See full metadata at source.)"  (76 characters)
truncatedNote ==
    <<"\n","\n","(","T","a","b","l","e","s"," ","t","r","u","n","c","a","t","e","d"," ","d","u",
      "e"," ","t","o"," ","l","e","n","g","t","h"," ","c","o","n","s","t","r","a","i","n","t",
      "s","."," ","S","e","e"," ","f","u","l","l"," ","m","e","t","a","d","a","t","a"," ","a",
      "t"," ","s","o","u","r","c","e",".",")">>

\* The notice of removed rows without the |} that closes the table.
tableTruncationNoteUnclosed ==
    <<"\n","\n","\n","\n","(","T","a","b","l","e"," ","t","r","u","n","c","a","t","e","d",
      " ","d","u","e"," ","t","o"," ","l","e","n","g","t","h"," ","c","o","n","s","t","r","a",
      "i","n","t","s","."," ","S","e","e"," ","f","u","l","l"," ","m","e","t","a","d","a","t",
      "a"," ","a","t"," ","s","o","u","r","c","e",".",")">>

\* truncateTables: truncationNote (rows removed)
\* "\n|}\n\n(Table truncated due to length constraints. See full metadata at source.)"  (78 characters)
tableTruncationNote ==
    <<"\n","|","}","\n","\n","(","T","a","b","l","e"," ","t","r","u","n","c","a","t","e","d",
      " ","d","u","e"," ","t","o"," ","l","e","n","g","t","h"," ","c","o","n","s","t","r","a",
      "i","n","t","s","."," ","S","e","e"," ","f","u","l","l"," ","m","e","t","a","d","a","t",
      "a"," ","a","t"," ","s","o","u","r","c","e",".",")">>

\* truncateTables with the empty string where nothing fits.
tablesOmittedNoteEmpty == <<>>

\* truncateTables: the sentence returned when nothing fits
\* "(Metadata tables omitted due to length constraints. See full metadata at source.)"  (81 characters)
tablesOmittedNote ==
    <<"(","M","e","t","a","d","a","t","a"," ","t","a","b","l","e","s"," ","o","m","i","t","t",
      "e","d"," ","d","u","e"," ","t","o"," ","l","e","n","g","t","h"," ","c","o","n","s","t",
      "r","a","i","n","t","s","."," ","S","e","e"," ","f","u","l","l"," ","m","e","t","a","d",
      "a","t","a"," ","a","t"," ","s","o","u","r","c","e",".",")">>

\* truncateDescription: truncationNote
\* "\n\n(Description truncated. See full description at source.)"  (58 characters)
descTruncationNote ==
    <<"\n","\n","(","D","e","s","c","r","i","p","t","i","o","n"," ","t","r","u","n","c","a","t",
      "e","d","."," ","S","e","e"," ","f","u","l","l"," ","d","e","s","c","r","i","p","t","i",
      "o","n"," ","a","t"," ","s","o","u","r","c","e",".",")">>

\* truncateDescription: ellipsisNote
\* "... (Description truncated. See full description at source.)"  (60 characters)
ellipsisNote ==
    <<".",".","."," ","(","D","e","s","c","r","i","p","t","i","o","n"," ","t","r","u","n","c",
      "a","t","e","d","."," ","S","e","e"," ","f","u","l","l"," ","d","e","s","c","r","i","p",
      "t","i","o","n"," ","a","t"," ","s","o","u","r","c","e",".",")">>

\* buildInfoTemplate: the text of the template around its fields.
templateText ==
    [
     \* buildInfoTemplate: the template text, piece by piece
     \* "{{Information\n|description="  (27 characters)
     head |->
         <<"{","{","I","n","f","o","r","m","a","t","i","o","n","\n","|","d","e","s","c","r","i","p",
           "t","i","o","n","=">>,
     \* "\n|date="  (7 characters)
     date |->
         <<"\n","|","d","a","t","e","=">>,
     \* "\n|source="  (9 characters)
     source |->
         <<"\n","|","s","o","u","r","c","e","=">>,
     \* "\n|author="  (9 characters)
     author |->
         <<"\n","|","a","u","t","h","o","r","=">>,
     \* "\n|permission=\n|other versions=\n}}\n{{Zenodo|"  (43 characters)
     permission |->
         <<"\n","|","p","e","r","m","i","s","s","i","o","n","=","\n","|","o","t","h","e","r"," ","v",
           "e","r","s","i","o","n","s","=","\n","}","}","\n","{","{","Z","e","n","o","d","o","|">>,
     \* "}}\n[[Category:Media from Zenodo]]\n[[Category:Uploaded with zenodo2commons]]"  (75 characters)
     categories |->
         <<"}","}","\n","[","[","C","a","t","e","g","o","r","y",":","M","e","d","i","a"," ","f","r",
           "o","m"," ","Z","e","n","o","d","o","]","]","\n","[","[","C","a","t","e","g","o","r","y",
           ":","U","p","l","o","a","d","e","d"," ","w","i","t","h"," ","z","e","n","o","d","o","2",
           "c","o","m","m","o","n","s","]","]">>
    ]

\* buildUrl: the endpoint
\* "https://commons.wikimedia.org/wiki/Special:Upload?"  (50 characters)
uploadBase ==
    <<"h","t","t","p","s",":","/","/","c","o","m","m","o","n","s",".","w","i","k","i","m","e",
      "d","i","a",".","o","r","g","/","w","i","k","i","/","S","p","e","c","i","a","l",":","U",
      "p","l","o","a","d","?">>

\* buildUrl: the names of the query parameters, and the value "url".
queryParam ==
    [
     \* buildUrl: the query parameter names
     \* "wpUploadDescription"  (19 characters)
     wpUploadDescription |->
         <<"w","p","U","p","l","o","a","d","D","e","s","c","r","i","p","t","i","o","n">>,
     \* "wpLicense"  (9 characters)
     wpLicense |->
         <<"w","p","L","i","c","e","n","s","e">>,
     \* "wpDestFile"  (10 characters)
     wpDestFile |->
         <<"w","p","D","e","s","t","F","i","l","e">>,
     \* "wpSourceType"  (12 characters)
     wpSourceType |->
         <<"w","p","S","o","u","r","c","e","T","y","p","e">>,
     \* "wpUploadFileURL"  (15 characters)
     wpUploadFileURL |->
         <<"w","p","U","p","l","o","a","d","F","i","l","e","U","R","L">>,
     \* "url"  (3 characters)
     url |->
         <<"u","r","l">>
    ]

-----------------------------------------------------------------------------
(* JavaScript string and array operations *)

\* The first element in the place of the last.
LastAsFirst(s) == s[1]

Last(s) == s[Len(s)]

\* The indices i of lo..hi, ascending, at which P[i] holds.
RECURSIVE Where(_, _, _)
Where(P, lo, hi) ==
    IF lo > hi THEN <<>>
    ELSE IF lo = hi THEN (IF P[lo] THEN <<lo>> ELSE <<>>)
    ELSE LET mid == (lo + hi) \div 2
         IN  Where(P, lo, mid) \o Where(P, mid + 1, hi)

RECURSIVE ConcatRange(_, _, _)
ConcatRange(ss, lo, hi) ==
    IF lo > hi THEN <<>>
    ELSE IF lo = hi THEN ss[lo]
    ELSE LET mid == (lo + hi) \div 2
         IN  ConcatRange(ss, lo, mid) \o ConcatRange(ss, mid + 1, hi)

\* The strings of ss one after the other.
Concat(ss) == ConcatRange(ss, 1, Len(ss))

\* Array.prototype.join(sep)
Join(ss, sep) ==
    Concat([i \in 1..(2 * Len(ss) - 1) |-> IF i % 2 = 1 THEN ss[(i + 1) \div 2] ELSE sep])

\* Array.prototype.slice(0, n) and String.prototype.substring(0, n), n >= 0
Slice(s, n) == SubSeq(s, 1, IF n < Len(s) THEN n ELSE Len(s))

\* startsWith as equality with the whole string.
StartsWithAsEquals(s, p) == s = p

\* String.prototype.startsWith(p)
StartsWith(s, p) == Len(s) >= Len(p) /\ SubSeq(s, 1, Len(p)) = p

\* String.prototype.includes(sub), sub not empty
Includes(s, sub) ==
    \E i \in 1..(Len(s) - Len(sub) + 1) :
        s[i] = sub[1] /\ SubSeq(s, i, i + Len(sub) - 1) = sub

\* The pieces of s between the separators of width w that start at the
\* positions at (ascending, not overlapping).
SplitAt(s, at, w) ==
    [j \in 1..(Len(at) + 1) |->
        SubSeq(s, IF j = 1 THEN 1 ELSE at[j - 1] + w,
                  IF j = Len(at) + 1 THEN Len(s) ELSE at[j] - 1)]

\* String.prototype.split('\n')
SplitLines(s) == SplitAt(s, Where([i \in 1..Len(s) |-> s[i] = NEWLINE], 1, Len(s)), 1)

\* The number of consecutive newlines that end just before position i.
RECURSIVE NewlinesBefore(_, _)
NewlinesBefore(s, i) ==
    IF i > 1 /\ s[i - 1] = NEWLINE THEN 1 + NewlinesBefore(s, i - 1) ELSE 0

\* String.prototype.split('\n\n'): the separators are matched left to right
\* and do not overlap, so in a run of newlines they start at its 1st, 3rd, ...
SplitParagraphs(s) ==
    SplitAt(s,
            Where([i \in 1..(Len(s) - 1) |-> /\ s[i] = NEWLINE
                                             /\ s[i + 1] = NEWLINE
                                             /\ NewlinesBefore(s, i) % 2 = 0],
                  1, Len(s) - 1),
            2)

IsSpace(c) == c \in {" ", NEWLINE}

RECURSIVE SkipSpaces(_, _)
SkipSpaces(s, i) ==
    IF i <= Len(s) /\ IsSpace(s[i]) THEN SkipSpaces(s, i + 1) ELSE i

RECURSIVE SkipSpacesBack(_, _)
SkipSpacesBack(s, i) ==
    IF i >= 1 /\ IsSpace(s[i]) THEN SkipSpacesBack(s, i - 1) ELSE i

\* trim() that leaves the string as it is.
TrimAsIdentity(s) == s

\* String.prototype.trim()
Trim(s) == SubSeq(s, SkipSpaces(s, 1), SkipSpacesBack(s, Len(s)))

IsTerminal(c) == c \in {".", "!", "?"}

RECURSIVE SkipTerminals(_, _)
SkipTerminals(s, i) ==
    IF i <= Len(s) /\ IsTerminal(s[i]) THEN SkipTerminals(s, i + 1) ELSE i

\* description.match(/[^.!?]+[.!?]+/g): null is the empty sequence.  A match
\* is a maximal run of non-terminal characters with the maximal run of
\* terminal characters after it; the matches follow one another directly.
MatchSentences(s) ==
    LET first == SkipTerminals(s, 1)
        ends  == Where([i \in first..Len(s) |-> /\ IsTerminal(s[i])
                                                /\ (i = Len(s) \/ ~IsTerminal(s[i + 1]))],
                       first, Len(s))
    IN  [j \in 1..Len(ends) |->
            SubSeq(s, IF j = 1 THEN first ELSE ends[j - 1] + 1, ends[j])]

-----------------------------------------------------------------------------
(* urlTrimmer.js *)

MAX_URL_LENGTH == 4000

MIN_TABLE_LENGTH == 100

\* TABLE_SPACE_RATIO = 0.4, in tenths
TABLE_SPACE_RATIO_TENTHS == 4

URL_ENCODING_MARGIN == 100

isUrlTooLong(u) == Len(u) > MAX_URL_LENGTH

\* if (!tables || tables.length <= maxLength) return tables;  (and the same
\* test on description): the string is empty or within the limit.
\* The test without its length part.
withinMaxLengthIgnoringLength(s, maxLength) == s = <<>>

\* The test with < in the place of <=.
withinMaxLengthExclusive(s, maxLength) == s = <<>> \/ Len(s) < maxLength

withinMaxLength(s, maxLength) == s = <<>> \/ Len(s) <= maxLength

\* truncateTables for a non-null string.  Array indices are JavaScript's
\* (from 0): lines[i] is linesOf[i + 1].
truncateTables(tables, maxLength) ==
    IF withinMaxLength(tables, maxLength) THEN tables
    ELSE
    LET lines == SplitLines(tables)
        tableStarts ==
            Where([i \in 0..(Len(lines) - 1) |-> Includes(lines[i + 1], tableOpenMarker)],
                  0, Len(lines) - 1)
        \* lines.slice(0, tableStarts[i]).join('\n') + truncatedNote
        withoutTablesFrom(i) ==
            Join(Slice(lines, tableStarts[i + 1]), <<NEWLINE>>) \o truncatedNote
        fittingTables ==
            IF Len(tableStarts) > 1
            THEN Where([i \in 1..(Len(tableStarts) - 1) |->
                           Len(withoutTablesFrom(i)) <= maxLength],
                       1, Len(tableStarts) - 1)
            ELSE <<>>
        \* lines.slice(0, i).join('\n') + truncationNote
        withoutRowsFrom(i) == Join(Slice(lines, i), <<NEWLINE>>) \o tableTruncationNote
        fittingRows ==
            Where([i \in 0..(Len(lines) - 2) |->
                      /\ \/ lines[i + 1] = <<"|", "-">>
                         \/ StartsWith(lines[i + 1], <<"|">>)
                         \/ StartsWith(lines[i + 1], <<"!">>)
                      /\ Includes(withoutRowsFrom(i), tableOpenMarker)
                      /\ Len(withoutRowsFrom(i)) <= maxLength],
                  0, Len(lines) - 2)
        minTable == Join(Slice(lines, 2), <<NEWLINE>>) \o tableTruncationNote
    IN  \* for (i = tableStarts.length - 1; i > 0; i--): the first fit returns
        IF fittingTables # <<>> THEN withoutTablesFrom(Last(fittingTables))
        \* for (i = lines.length - 2; i >= 0; i--): the first fit returns
        ELSE IF fittingRows # <<>> THEN withoutRowsFrom(Last(fittingRows))
        ELSE IF Includes(minTable, tableOpenMarker) /\ Len(minTable) <= maxLength
             THEN minTable
        ELSE tablesOmittedNote

\* for (const para of paragraphs): truncated after the loop, entered at
\* paragraphs[k] (from 1) with the given truncated.
RECURSIVE paragraphLoop(_, _, _, _)
paragraphLoop(paragraphs, k, truncated, maxLength) ==
    IF k > Len(paragraphs) THEN truncated
    ELSE LET para == paragraphs[k]
             nextTruncated ==
                 IF truncated # <<>> THEN truncated \o <<NEWLINE, NEWLINE>> \o para
                 ELSE para
         IN  IF Len(nextTruncated) + Len(descTruncationNote) > maxLength
             THEN truncated
             ELSE paragraphLoop(paragraphs, k + 1, nextTruncated, maxLength)

\* for (const sentence of sentences): truncated after the loop.
RECURSIVE sentenceLoop(_, _, _, _)
sentenceLoop(sentences, k, truncated, maxLength) ==
    IF k > Len(sentences) THEN truncated
    ELSE LET sentence == sentences[k]
         IN  IF Len(truncated \o sentence) + Len(ellipsisNote) > maxLength
             THEN truncated
             ELSE sentenceLoop(sentences, k + 1, truncated \o sentence, maxLength)

\* truncateDescription for a non-null string.
truncateDescription(description, maxLength) ==
    IF withinMaxLength(description, maxLength) THEN description
    ELSE
    LET paragraphs == SplitParagraphs(description)
        byParagraph == paragraphLoop(paragraphs, 1, <<>>, maxLength)
        matched == MatchSentences(description)
        sentences == IF matched # <<>> THEN matched ELSE <<description>>
        bySentence == sentenceLoop(sentences, 1, <<>>, maxLength)
        hardTruncateLength == maxLength - Len(ellipsisNote)
    IN  IF byParagraph # <<>> THEN byParagraph \o descTruncationNote
        ELSE IF bySentence # <<>> THEN Trim(bySentence) \o ellipsisNote
        ELSE IF hardTruncateLength > 0
             THEN Slice(description, hardTruncateLength) \o ellipsisNote
        ELSE ellipsisNote

\* A JavaScript value handed to a truncation function: a string, null or
\* undefined.
JsString(s) == [type |-> "string", s |-> s]
JsNull == [type |-> "null", s |-> <<>>]
JsUndefined == [type |-> "undefined", s |-> <<>>]

\* export function truncateTables(tables, maxLength)
truncateTablesJs(v, maxLength) ==
    IF v.type # "string" THEN v ELSE JsString(truncateTables(v.s, maxLength))

\* export function truncateDescription(description, maxLength)
truncateDescriptionJs(v, maxLength) ==
    IF v.type # "string" THEN v ELSE JsString(truncateDescription(v.s, maxLength))

-----------------------------------------------------------------------------
(* URLSearchParams.toString(): application/x-www-form-urlencoded *)

\* The serializer leaves ASCII letters, digits and * - . _ as they are,
\* writes a space as + and every other byte as %XX.
encodeChar(c) ==
    IF c \in Letters \cup Digits \cup {"*", "-", ".", "_"} THEN <<c>>
    ELSE IF c = " " THEN <<"+">>
    ELSE <<"%", HexDigits[(CharCode[c] \div 16) + 1], HexDigits[(CharCode[c] % 16) + 1]>>

urlencode(s) == Concat([i \in 1..Len(s) |-> encodeChar(s[i])])

\* new URLSearchParams({...}).toString() for a list of <<name, value>> pairs
serializeParams(pairs) ==
    Join([i \in 1..Len(pairs) |-> urlencode(pairs[i][1]) \o <<"=">> \o urlencode(pairs[i][2])],
         <<"&">>)

\* buildInfoTemplate(desc, nts, tbl) inside buildConstrainedUploadUrl(p)
buildInfoTemplate(p, desc, nts, tbl) ==
    LET descriptionSection ==
            p.title \o <<":", NEWLINE>> \o desc
            \o (IF nts # <<>> THEN <<NEWLINE, NEWLINE>> \o nts ELSE <<>>)
        template ==
            templateText.head \o descriptionSection
            \o templateText.date \o p.date
            \o templateText.source \o p.source
            \o templateText.author \o p.authors
            \o templateText.permission \o p.recordId \o templateText.categories
    IN  IF tbl # <<>> THEN template \o <<NEWLINE, NEWLINE>> \o tbl ELSE template

\* buildUrl without the wpLicense entry.
buildUrlWithoutLicense(p, infoTemplate) ==
    uploadBase \o serializeParams(<<
        <<queryParam.wpUploadDescription, infoTemplate>>,
        <<queryParam.wpDestFile, p.destFile>>,
        <<queryParam.wpSourceType, queryParam.url>>,
        <<queryParam.wpUploadFileURL, p.fileUrl>> >>)

\* buildUrl(infoTemplate) inside buildConstrainedUploadUrl(p)
buildUrl(p, infoTemplate) ==
    uploadBase \o serializeParams(<<
        <<queryParam.wpUploadDescription, infoTemplate>>,
        <<queryParam.wpLicense, p.commonsLicense>>,
        <<queryParam.wpDestFile, p.destFile>>,
        <<queryParam.wpSourceType, queryParam.url>>,
        <<queryParam.wpUploadFileURL, p.fileUrl>> >>)

\* maxTableLength with the whole remaining space reserved for the tables.
maxTableLengthOfWholeSpace(p) ==
    LET baseLength == Len(buildUrl(p, buildInfoTemplate(p, p.description, p.notes, <<>>)))
        remainingSpace == MAX_URL_LENGTH - baseLength - URL_ENCODING_MARGIN
    IN  IF Len(p.tables) < remainingSpace THEN Len(p.tables) ELSE remainingSpace

\* Strategy 1: baseLength, remainingSpace and maxTableLength
maxTableLength(p) ==
    LET baseLength == Len(buildUrl(p, buildInfoTemplate(p, p.description, p.notes, <<>>)))
        remainingSpace == MAX_URL_LENGTH - baseLength - URL_ENCODING_MARGIN
        tableSpace == (remainingSpace * TABLE_SPACE_RATIO_TENTHS) \div 10
    IN  IF Len(p.tables) < tableSpace THEN Len(p.tables) ELSE tableSpace

\* Strategy 4: minimalLength and maxDescLength
maxDescLength(p) ==
    LET minimalLength == Len(buildUrl(p, buildInfoTemplate(p, <<>>, <<>>, <<>>)))
    IN  MAX_URL_LENGTH - minimalLength - URL_ENCODING_MARGIN

\* The candidate URLs of the ladder, in the order they are tried.
fullUrl(p) == buildUrl(p, buildInfoTemplate(p, p.description, p.notes, p.tables))

truncatedTablesUrl(p) ==
    buildUrl(p, buildInfoTemplate(p, p.description, p.notes,
                                  truncateTables(p.tables, maxTableLength(p))))

\* Strategy 2 leaving out the notes with the tables.
noTablesUrlWithoutNotes(p) == buildUrl(p, buildInfoTemplate(p, p.description, <<>>, <<>>))

noTablesUrl(p) == buildUrl(p, buildInfoTemplate(p, p.description, p.notes, <<>>))

noNotesUrl(p) == buildUrl(p, buildInfoTemplate(p, p.description, <<>>, <<>>))

truncatedDescriptionUrl(p) ==
    buildUrl(p, buildInfoTemplate(p, truncateDescription(p.description, maxDescLength(p)),
                                  <<>>, <<>>))

\* A return that leaves wasTruncated false.
ReturnedUnflagged(u, wasTruncated) == [kind |-> "returned", url |-> u, wasTruncated |-> FALSE]

\* return { url, wasTruncated }
Returned(u, wasTruncated) == [kind |-> "returned", url |-> u, wasTruncated |-> wasTruncated]

NoResult == [kind |-> "none", url |-> <<>>, wasTruncated |-> FALSE]

-----------------------------------------------------------------------------
(* Reading a URL back: what the upload form receives *)

\* String.fromCharCode
CharOfCode ==
    [n \in {CharCode[c] : c \in DOMAIN CharCode} |->
        CHOOSE c \in DOMAIN CharCode : CharCode[c] = n]

HexValue ==
    [h \in {HexDigits[i] : i \in 1..Len(HexDigits)} |->
        (CHOOSE i \in 1..Len(HexDigits) : HexDigits[i] = h) - 1]

\* The form decoding of a serialized name or value: + is a space, %XX is the
\* byte XX, every other character stands for itself.  The two characters
\* after a % are hexadecimal digits, never a % themselves.
urldecode(s) ==
    LET starts == Where([i \in 1..Len(s) |-> /\ ~(i > 1 /\ s[i - 1] = "%")
                                             /\ ~(i > 2 /\ s[i - 2] = "%")],
                        1, Len(s))
    IN  [j \in 1..Len(starts) |->
            LET i == starts[j]
            IN  IF s[i] = "+" THEN " "
                ELSE IF s[i] = "%"
                     THEN CharOfCode[16 * HexValue[s[i + 1]] + HexValue[s[i + 2]]]
                ELSE s[i]]

\* The <<name, value>> pairs of the query of u, decoded, in their order.
searchParams(u) ==
    LET query == SubSeq(u, Len(uploadBase) + 1, Len(u))
        parts ==
            SplitAt(query, Where([i \in 1..Len(query) |-> query[i] = "&"], 1, Len(query)), 1)
    IN  [j \in 1..Len(parts) |->
            LET part == parts[j]
                eq == Where([i \in 1..Len(part) |-> part[i] = "="], 1, Len(part))[1]
            IN  <<urldecode(SubSeq(part, 1, eq - 1)),
                  urldecode(SubSeq(part, eq + 1, Len(part)))>>]

\* URLSearchParams.get(name) on the pairs read: the value of the first pair
\* of that name.
paramValue(pairs, name) ==
    pairs[CHOOSE j \in 1..Len(pairs) :
              pairs[j][1] = name /\ \A k \in 1..(j - 1) : pairs[k][1] # name][2]

-----------------------------------------------------------------------------
(* The calls checked: inputs of buildConstrainedUploadUrl *)

\* u repeated n times
Rep(u, n) == [i \in 1..(n * Len(u)) |-> u[((i - 1) % Len(u)) + 1]]

\* Descriptions of X's are DescStep characters apart, up to MaxDescSteps steps.
DescStep == 550
MaxDescSteps == 9
\* The rows of the long tables, the sentences and paragraphs of the long
\* descriptions, the length of the long notes and of the long title.
LongTableRows == 40
LongTextUnits == 80
LongNotesLength == 3000
LongTitleLength == 4000

\* Texts the inputs of buildConstrainedUploadUrl are built of, after
\* those of the tests.
sample ==
    [
     \* "Important note about this resource"  (34 characters)
     notes |->
         <<"I","m","p","o","r","t","a","n","t"," ","n","o","t","e"," ","a","b","o","u","t"," ","t",
           "h","i","s"," ","r","e","s","o","u","r","c","e">>,
     \* "! Header of one column\n|-\n| Very long value of the cell that holds many words and the numbers 0123456789"  (104 characters)
     headerRow |->
         <<"!"," ","H","e","a","d","e","r"," ","o","f"," ","o","n","e"," ","c","o","l","u","m","n",
           "\n","|","-","\n","|"," ","V","e","r","y"," ","l","o","n","g"," ","v","a","l","u","e"," ",
           "o","f"," ","t","h","e"," ","c","e","l","l"," ","t","h","a","t"," ","h","o","l","d","s",
           " ","m","a","n","y"," ","w","o","r","d","s"," ","a","n","d"," ","t","h","e"," ","n","u",
           "m","b","e","r","s"," ","0","1","2","3","4","5","6","7","8","9">>,
     \* "! ((&)); [[#]]\n|-\n| [[{{((&))}}]]; [[{{((&))}}]]; [[{{((&))}}]]; [[{{((&))}}]]; [[{{((&))}}]]; [[{{((&))}}]]"  (108 characters)
     punctuatedRow |->
         <<"!"," ","(","(","&",")",")",";"," ","[","[","#","]","]","\n","|","-","\n","|"," ","[","[",
           "{","{","(","(","&",")",")","}","}","]","]",";"," ","[","[","{","{","(","(","&",")",")",
           "}","}","]","]",";"," ","[","[","{","{","(","(","&",")",")","}","}","]","]",";"," ","[",
           "[","{","{","(","(","&",")",")","}","}","]","]",";"," ","[","[","{","{","(","(","&",")",
           ")","}","}","]","]",";"," ","[","[","{","{","(","(","&",")",")","}","}","]","]">>,
     \* "Description sentence with several plain words in it. "  (53 characters)
     sentence |->
         <<"D","e","s","c","r","i","p","t","i","o","n"," ","s","e","n","t","e","n","c","e"," ","w",
           "i","t","h"," ","s","e","v","e","r","a","l"," ","p","l","a","i","n"," ","w","o","r","d",
           "s"," ","i","n"," ","i","t","."," ">>,
     \* "A paragraph of the description, having commas; and more.\n\n"  (58 characters)
     paragraph |->
         <<"A"," ","p","a","r","a","g","r","a","p","h"," ","o","f"," ","t","h","e"," ","d","e","s",
           "c","r","i","p","t","i","o","n",","," ","h","a","v","i","n","g"," ","c","o","m","m","a",
           "s",";"," ","a","n","d"," ","m","o","r","e",".","\n","\n">>
    ]

\* baseParams of the tests of buildConstrainedUploadUrl.
baseParams ==
    [
     \* "Test Record"  (11 characters)
     title |->
         <<"T","e","s","t"," ","R","e","c","o","r","d">>,
     \* "Test description"  (16 characters)
     description |->
         <<"T","e","s","t"," ","d","e","s","c","r","i","p","t","i","o","n">>,
     \* the tests' baseParams have no notes
     notes |-> <<>>,
     tables |-> <<>>,
     \* "2025-01-15"  (10 characters)
     date |->
         <<"2","0","2","5","-","0","1","-","1","5">>,
     \* "https://zenodo.org/records/12345"  (32 characters)
     source |->
         <<"h","t","t","p","s",":","/","/","z","e","n","o","d","o",".","o","r","g","/","r","e","c",
           "o","r","d","s","/","1","2","3","4","5">>,
     \* "John Doe"  (8 characters)
     authors |->
         <<"J","o","h","n"," ","D","o","e">>,
     \* "12345"  (5 characters)
     recordId |->
         <<"1","2","3","4","5">>,
     \* "cc-by-4.0"  (9 characters)
     commonsLicense |->
         <<"c","c","-","b","y","-","4",".","0">>,
     \* "test.png"  (8 characters)
     destFile |->
         <<"t","e","s","t",".","p","n","g">>,
     \* "https://zenodo.org/records/12345/files/test.png"  (47 characters)
     fileUrl |->
         <<"h","t","t","p","s",":","/","/","z","e","n","o","d","o",".","o","r","g","/","r","e","c",
           "o","r","d","s","/","1","2","3","4","5","/","f","i","l","e","s","/","t","e","s","t",".",
           "p","n","g">>
    ]

\* The calls of buildConstrainedUploadUrl that are checked: descriptions
\* of X's DescStep characters apart, with and without notes and tables;
\* tables of many rows, of punctuation, and three in a row; descriptions of
\* sentences, of paragraphs and of commas; long notes; a long title.
BudgeterInputs ==
    LET \* one wiki table of `rows` copies of row, as the tests build it
        TableOf(row, rows) ==
            tableOpenMarker \o <<NEWLINE>>
            \o Join([i \in 1..rows |-> row], <<NEWLINE>>)
            \o <<NEWLINE, "|", "}">>
        XDescription(k) == Rep(<<"X">>, k * DescStep)
        smallTable == TableOf(sample.headerRow, 1)
        longTable == TableOf(sample.headerRow, LongTableRows)
        punctuatedTable == TableOf(sample.punctuatedRow, LongTableRows)
        threeTables ==
            Join(<<TableOf(sample.headerRow, 2), longTable, smallTable>>,
                 <<NEWLINE, NEWLINE>>)
        longNotes == Rep(<<"N">>, LongNotesLength)
    IN
        {[baseParams EXCEPT !.description = XDescription(k), !.notes = n, !.tables = t] :
            k \in 0..MaxDescSteps, n \in {<<>>, sample.notes}, t \in {<<>>, smallTable, longTable}}
        \cup
        {[baseParams EXCEPT !.description = XDescription(k), !.notes = n, !.tables = t] :
            k \in 0..MaxDescSteps, n \in {sample.notes}, t \in {punctuatedTable, threeTables}}
        \cup
        {[baseParams EXCEPT !.description = d, !.tables = t] :
            d \in {baseParams.description, Rep(sample.sentence, LongTextUnits),
                   Rep(sample.paragraph, LongTextUnits),
                   Rep(<<",">>, 4 * DescStep)},
            t \in {<<>>, smallTable}}
        \cup
        {[baseParams EXCEPT !.description = XDescription(k), !.notes = longNotes, !.tables = t] :
            k \in {1, 3, MaxDescSteps}, t \in {<<>>, smallTable}}
        \cup
        {[baseParams EXCEPT !.title = Rep(<<"T">>, LongTitleLength), !.description = d] :
            d \in {baseParams.description, XDescription(MaxDescSteps)}}
        \cup
        \* descriptions that leave the tables 101 and 100 characters
        {[baseParams EXCEPT !.description = Rep(<<"X">>, n), !.notes = sample.notes,
                            !.tables = longTable] : n \in {3068, 3071}}

\* No truncation call is in progress.
TruncateIdle ==
    /\ call = [fn |-> "none", arg |-> JsUndefined, maxLength |-> 0]
    /\ tpc = "idle"
    /\ ret = JsUndefined
    /\ ret2 = JsUndefined

\* No cleanDescription call is in progress.
ConvertIdle ==
    /\ html = JsUndefined
    /\ htmlTokens = <<>>
    /\ cpc = "idle"
    /\ text = <<>>
    /\ extractedTables = <<>>
    /\ converted = [description |-> <<>>, tables |-> <<>>]

\* No record is fetched and nothing of it is rendered.
AppIdle ==
    /\ record = JsNull
    /\ apc = "idle"
    /\ authors = <<>>
    /\ fileCards = <<>>

\* The page of the app is not open.
FetchIdle ==
    /\ zenodoId = <<>>
    /\ error = JsNull
    /\ loading = FALSE
    /\ pathname = <<>>
    /\ requests = <<>>

\* The content script runs on no page.
ExtensionIdle ==
    /\ page = JsNull
    /\ xpc = "idle"
    /\ buttons = <<>>
    /\ created = JsUndefined
    /\ timers = {}
    /\ observerTimeout = 0

-----------------------------------------------------------------------------
(* buildConstrainedUploadUrl(params), one action for each strategy *)

Init ==
    /\ params \in BudgeterInputs
    /\ pc = "full"
    /\ url = <<>>
    /\ result = NoResult
    /\ TruncateIdle
    /\ ConvertIdle
    /\ AppIdle
    /\ ExtensionIdle
    /\ FetchIdle

\* Try with full content first
TryFullContent ==
    /\ pc = "full"
    /\ url' = fullUrl(params)
    /\ IF ~isUrlTooLong(url')
       THEN result' = Returned(url', FALSE) /\ pc' = "done"
       ELSE pc' = "strategy1" /\ UNCHANGED result
    /\ UNCHANGED <<params, truncateVars, convertVars, appVars, fetchVars, extensionVars>>

\* Strategy 1: Truncate tables significantly
Strategy1TruncateTables ==
    /\ pc = "strategy1"
    /\ LET attempted ==
               params.tables # <<>> /\ maxTableLength(params) > MIN_TABLE_LENGTH
       IN  /\ url' = IF attempted THEN truncatedTablesUrl(params) ELSE url
           /\ IF attempted /\ ~isUrlTooLong(url')
              THEN result' = Returned(url', TRUE) /\ pc' = "done"
              ELSE pc' = "strategy2" /\ UNCHANGED result
    /\ UNCHANGED <<params, truncateVars, convertVars, appVars, fetchVars, extensionVars>>

\* Strategy 2: Remove tables entirely, keep full description and notes
Strategy2RemoveTables ==
    /\ pc = "strategy2"
    /\ url' = noTablesUrl(params)
    /\ IF ~isUrlTooLong(url')
       THEN result' = Returned(url', TRUE) /\ pc' = "done"
       ELSE pc' = "strategy3" /\ UNCHANGED result
    /\ UNCHANGED <<params, truncateVars, convertVars, appVars, fetchVars, extensionVars>>

\* Strategy 3: Try without notes to see if description fits
Strategy3WithoutNotes ==
    /\ pc = "strategy3"
    /\ url' = noNotesUrl(params)
    /\ IF ~isUrlTooLong(url')
       THEN result' = Returned(url', TRUE) /\ pc' = "done"
       ELSE pc' = "strategy4" /\ UNCHANGED result
    /\ UNCHANGED <<params, truncateVars, convertVars, appVars, fetchVars, extensionVars>>

\* Strategy 4: Truncate description (notes already removed)
Strategy4TruncateDescription ==
    /\ pc = "strategy4"
    /\ url' = truncatedDescriptionUrl(params)
    /\ result' = Returned(url', TRUE)
    /\ pc' = "done"
    /\ UNCHANGED <<params, truncateVars, convertVars, appVars, fetchVars, extensionVars>>

Next ==
    \/ TryFullContent
    \/ Strategy1TruncateTables
    \/ Strategy2RemoveTables
    \/ Strategy3WithoutNotes
    \/ Strategy4TruncateDescription

Spec == Init /\ [][Next]_vars

-----------------------------------------------------------------------------
(* Properties of buildConstrainedUploadUrl, checked under Spec *)

\* C1: for every input, the URL that buildConstrainedUploadUrl returns has
\* at most MAX_URL_LENGTH (4000) characters, counted on the encoded URL.
UrlNeverExceedsMaxLength ==
    pc = "done" => Len(result.url) <= MAX_URL_LENGTH

\* C2: when the URL built with empty description, notes and tables is
\* already longer than the budget, the call reports the failure
\* BudgetUnsatisfiable and returns no over-length URL.
UnsatisfiableBudgetIsReported ==
    (pc = "done" /\ isUrlTooLong(buildUrl(params, buildInfoTemplate(params, <<>>, <<>>, <<>>))))
        => (result.kind = "BudgetUnsatisfiable" /\ ~isUrlTooLong(result.url))

\* C3: wasTruncated is false exactly when the URL of the untouched
\* description, notes and tables has at most 4000 characters, and every
\* result returned by a strategy after the first try has wasTruncated true.
WasTruncatedIffFullUrlTooLong ==
    [][pc' = "done" =>
          /\ result'.wasTruncated =
                 isUrlTooLong(buildUrl(params, buildInfoTemplate(
                     params, params.description, params.notes, params.tables)))
          /\ (pc # "full" => result'.wasTruncated)]_vars

FlaggedResultOfLaterStrategy ==
    /\ pc = "done"
    /\ result.wasTruncated
    /\ isUrlTooLong(fullUrl(params))

\* The wpUploadDescription a URL carries, and the parts of the template
\* around the description, notes and tables of p.
templateOf(u) == paramValue(searchParams(u), queryParam.wpUploadDescription)

templateHead(p) == templateText.head \o p.title \o <<":", NEWLINE>>

templateTail(p) ==
    templateText.date \o p.date \o templateText.source \o p.source
    \o templateText.author \o p.authors
    \o templateText.permission \o p.recordId \o templateText.categories

\* The template t holds tables, holds the notes of p, holds the whole
\* description of p.
keepsTables(p, t) ==
    ~(Len(t) >= Len(templateTail(p))
      /\ SubSeq(t, Len(t) - Len(templateTail(p)) + 1, Len(t)) = templateTail(p))

keepsNotes(p, t) == Includes(t, <<NEWLINE, NEWLINE>> \o p.notes \o templateText.date)

keepsDescription(p, t) ==
    \/ StartsWith(t, templateHead(p) \o p.description \o templateText.date)
    \/ StartsWith(t, templateHead(p) \o p.description \o <<NEWLINE, NEWLINE>>
                         \o p.notes \o templateText.date)

\* C4: the result is the candidate of the earliest strategy, in the order
\* full content, truncated tables, no tables, no tables and no notes, whose
\* URL has at most 4000 characters, and the candidate with the truncated
\* description only when none of them fits; so the notes are never removed
\* while tables are kept, and the description is never shortened while notes
\* or tables are kept.
EarliestFittingStrategyReturned ==
    pc = "done" =>
        LET U(desc, nts, tbl) == buildUrl(params, buildInfoTemplate(params, desc, nts, tbl))
            fits(u) == Len(u) <= MAX_URL_LENGTH
            full == U(params.description, params.notes, params.tables)
            tablesTried ==
                params.tables # <<>> /\ maxTableLength(params) > MIN_TABLE_LENGTH
            truncatedTables ==
                U(params.description, params.notes,
                  truncateTables(params.tables, maxTableLength(params)))
            noTables == U(params.description, params.notes, <<>>)
            noNotes == U(params.description, <<>>, <<>>)
            truncatedDesc ==
                U(truncateDescription(params.description, maxDescLength(params)), <<>>, <<>>)
            template == templateOf(result.url)
        IN  /\ result.url =
                   IF fits(full) THEN full
                   ELSE IF tablesTried /\ fits(truncatedTables) THEN truncatedTables
                   ELSE IF fits(noTables) THEN noTables
                   ELSE IF fits(noNotes) THEN noNotes
                   ELSE truncatedDesc
            /\ (params.notes # <<>> /\ keepsTables(params, template))
                   => keepsNotes(params, template)
            /\ ~keepsDescription(params, template)
                   => /\ ~keepsTables(params, template)
                      /\ params.notes # <<>> => ~keepsNotes(params, template)

TablesDroppedNotesKept ==
    /\ pc = "done"
    /\ params.notes # <<>>
    /\ params.tables # <<>>
    /\ isUrlTooLong(fullUrl(params))
    /\ ~keepsTables(params, templateOf(result.url))
    /\ keepsNotes(params, templateOf(result.url))
    /\ keepsDescription(params, templateOf(result.url))

\* C5: whatever strategy returns, the URL carries wpLicense, wpDestFile,
\* wpSourceType=url and wpUploadFileURL with the values of the call, and its
\* wpUploadDescription holds the whole template around the description,
\* notes and tables, with title, date, source, authors and recordId as given.
FixedFieldsAndSkeletonUnchanged ==
    pc = "done" =>
        LET pairs == searchParams(result.url)
            template == paramValue(pairs, queryParam.wpUploadDescription)
        IN  /\ StartsWith(result.url, uploadBase)
            /\ [j \in 1..Len(pairs) |-> pairs[j][1]] =
                   <<queryParam.wpUploadDescription, queryParam.wpLicense,
                     queryParam.wpDestFile, queryParam.wpSourceType,
                     queryParam.wpUploadFileURL>>
            /\ paramValue(pairs, queryParam.wpLicense) = params.commonsLicense
            /\ paramValue(pairs, queryParam.wpDestFile) = params.destFile
            /\ paramValue(pairs, queryParam.wpSourceType) = queryParam.url
            /\ paramValue(pairs, queryParam.wpUploadFileURL) = params.fileUrl
            /\ StartsWith(template, templateHead(params))
            /\ Includes(SubSeq(template, Len(templateHead(params)) + 1, Len(template)),
                        templateTail(params))

SkeletonAroundTruncatedDescription ==
    /\ pc = "done"
    /\ params.tables # <<>>
    /\ result.url = truncatedDescriptionUrl(params)
    /\ ~keepsDescription(params, templateOf(result.url))
    /\ paramValue(searchParams(result.url), queryParam.wpLicense) = params.commonsLicense

-----------------------------------------------------------------------------
(* The calls checked: truncateTables and truncateDescription *)

\* maxLength ranges over 0..MaxTruncateLength; multi-table inputs have up to
\* MaxTableBlocks tables; the unbroken description has UnbrokenLength X's.
MaxTruncateLength == 150
MaxTableBlocks == 5
UnbrokenLength == 130

\* Texts the arguments of truncateTables and truncateDescription are built of.
truncateSample ==
    [
     \* truncateTables inputs
     \* "{| class=\"wikitable\"\n| a\n|}"  (27 characters)
     oneRowTable |->
         <<"{","|"," ","c","l","a","s","s","=","\"","w","i","k","i","t","a","b","l","e","\"","\n",
           "|"," ","a","\n","|","}">>,
     \* "{| class=\"wikitable\"\n! H\n|-\n| b\n|-\n| c\n|}"  (41 characters)
     headedTable |->
         <<"{","|"," ","c","l","a","s","s","=","\"","w","i","k","i","t","a","b","l","e","\"","\n",
           "!"," ","H","\n","|","-","\n","|"," ","b","\n","|","-","\n","|"," ","c","\n","|","}">>,
     \* "Legend\n{| class=\"wikitable\"\n! H\n|-\n| b\n|-\n| c\n|-\n| d\n|-\n| e\n|-\n| f\n|-\n| g\n|-\n| h\n|}"  (83 characters)
     captionedTable |->
         <<"L","e","g","e","n","d","\n","{","|"," ","c","l","a","s","s","=","\"","w","i","k","i","t",
           "a","b","l","e","\"","\n","!"," ","H","\n","|","-","\n","|"," ","b","\n","|","-","\n","|",
           " ","c","\n","|","-","\n","|"," ","d","\n","|","-","\n","|"," ","e","\n","|","-","\n","|",
           " ","f","\n","|","-","\n","|"," ","g","\n","|","-","\n","|"," ","h","\n","|","}">>,
     \* "! H\n|-\n| b\n|-\n| c\n|-\n| d\n|}"  (27 characters)
     unopenedTable |->
         <<"!"," ","H","\n","|","-","\n","|"," ","b","\n","|","-","\n","|"," ","c","\n","|","-","\n",
           "|"," ","d","\n","|","}">>,
     \* truncateDescription inputs
     \* "First sentence. Second one! A third? Then the fourth sentence. And the fifth. Sixth here. Seventh one. Eighth. Ninth. Tenth"  (123 characters)
     proseDescription |->
         <<"F","i","r","s","t"," ","s","e","n","t","e","n","c","e","."," ","S","e","c","o","n","d",
           " ","o","n","e","!"," ","A"," ","t","h","i","r","d","?"," ","T","h","e","n"," ","t","h",
           "e"," ","f","o","u","r","t","h"," ","s","e","n","t","e","n","c","e","."," ","A","n","d",
           " ","t","h","e"," ","f","i","f","t","h","."," ","S","i","x","t","h"," ","h","e","r","e",
           "."," ","S","e","v","e","n","t","h"," ","o","n","e","."," ","E","i","g","h","t","h",".",
           " ","N","i","n","t","h","."," ","T","e","n","t","h">>,
     \* "First paragraph.\n\nSecond paragraph, longer.\n\nThird.\n\nFourth paragraph of the text.\n\nFifth paragraph.\n\nSixth and last."  (117 characters)
     paragraphsDescription |->
         <<"F","i","r","s","t"," ","p","a","r","a","g","r","a","p","h",".","\n","\n","S","e","c","o",
           "n","d"," ","p","a","r","a","g","r","a","p","h",","," ","l","o","n","g","e","r",".","\n",
           "\n","T","h","i","r","d",".","\n","\n","F","o","u","r","t","h"," ","p","a","r","a","g",
           "r","a","p","h"," ","o","f"," ","t","h","e"," ","t","e","x","t",".","\n","\n","F","i","f",
           "t","h"," ","p","a","r","a","g","r","a","p","h",".","\n","\n","S","i","x","t","h"," ","a",
           "n","d"," ","l","a","s","t",".">>,
     \* "\n\n\n\nAfter two empty paragraphs.\n\n\nOdd newlines. More text follows here to make it long enough.\n\nLast paragraph of it."  (117 characters)
     spacedDescription |->
         <<"\n","\n","\n","\n","A","f","t","e","r"," ","t","w","o"," ","e","m","p","t","y"," ","p",
           "a","r","a","g","r","a","p","h","s",".","\n","\n","\n","O","d","d"," ","n","e","w","l",
           "i","n","e","s","."," ","M","o","r","e"," ","t","e","x","t"," ","f","o","l","l","o","w",
           "s"," ","h","e","r","e"," ","t","o"," ","m","a","k","e"," ","i","t"," ","l","o","n","g",
           " ","e","n","o","u","g","h",".","\n","\n","L","a","s","t"," ","p","a","r","a","g","r","a",
           "p","h"," ","o","f"," ","i","t",".">>,
     \* "...?! starts with terminals and goes on without any further terminal for a long while, then stops.   \n Tail without end"  (119 characters)
     dottedDescription |->
         <<".",".",".","?","!"," ","s","t","a","r","t","s"," ","w","i","t","h"," ","t","e","r","m",
           "i","n","a","l","s"," ","a","n","d"," ","g","o","e","s"," ","o","n"," ","w","i","t","h",
           "o","u","t"," ","a","n","y"," ","f","u","r","t","h","e","r"," ","t","e","r","m","i","n",
           "a","l"," ","f","o","r"," ","a"," ","l","o","n","g"," ","w","h","i","l","e",","," ","t",
           "h","e","n"," ","s","t","o","p","s","."," "," "," ","\n"," ","T","a","i","l"," ","w","i",
           "t","h","o","u","t"," ","e","n","d">>
    ]

\* The calls of truncateTables and truncateDescription that are checked:
\* every argument with every maxLength of 0..MaxTruncateLength.
TruncateCalls ==
    LET s == truncateSample
        \* k one-row tables, a blank line between them
        TableBlocks(k) == Join([i \in 1..k |-> s.oneRowTable], <<NEWLINE, NEWLINE>>)
        TruncateTablesArgs ==
            {JsNull, JsUndefined, JsString(<<>>)}
            \cup {JsString(TableBlocks(k)) : k \in 1..MaxTableBlocks}
            \cup {JsString(t) : t \in {s.headedTable, s.captionedTable, s.unopenedTable,
                                       s.headedTable \o <<NEWLINE, NEWLINE>> \o TableBlocks(3),
                                       \* a table without rows before a table with rows
                                       tableOpenMarker \o <<NEWLINE, "|", "}", NEWLINE, NEWLINE>>
                                           \o SubSeq(s.captionedTable, 8,
                                                     Len(s.captionedTable)),
                                       \* rows that no table-open marker precedes
                                       Join([i \in 1..4 |-> s.unopenedTable], <<NEWLINE>>),
                                       tablesOmittedNote}}
        TruncateDescriptionArgs ==
            {JsNull, JsUndefined, JsString(<<>>)}
            \cup {JsString(d) : d \in {baseParams.description, s.proseDescription,
                                       s.paragraphsDescription, s.spacedDescription,
                                       s.dottedDescription,
                                       \* a description that begins with a space
                                       <<" ">> \o s.proseDescription,
                                       Rep(<<"X">>, UnbrokenLength), ellipsisNote,
                                       baseParams.description \o descTruncationNote}}
    IN
        {[fn |-> "truncateTables", arg |-> v, maxLength |-> n] :
            v \in TruncateTablesArgs, n \in 0..MaxTruncateLength}
        \cup
        {[fn |-> "truncateDescription", arg |-> v, maxLength |-> n] :
            v \in TruncateDescriptionArgs, n \in 0..MaxTruncateLength}

\* No buildConstrainedUploadUrl call is in progress.
BudgeterIdle ==
    /\ params = baseParams
    /\ pc = "idle"
    /\ url = <<>>
    /\ result = NoResult

InitTruncate ==
    /\ call \in TruncateCalls
    /\ tpc = "ready"
    /\ ret = JsUndefined
    /\ ret2 = JsUndefined
    /\ BudgeterIdle
    /\ ConvertIdle
    /\ AppIdle
    /\ ExtensionIdle
    /\ FetchIdle

\* truncateTables(tables, maxLength)
CallTruncateTables ==
    /\ tpc = "ready"
    /\ call.fn = "truncateTables"
    /\ ret' = truncateTablesJs(call.arg, call.maxLength)
    /\ tpc' = "once"
    /\ UNCHANGED <<call, ret2, budgeterVars, convertVars, appVars, fetchVars, extensionVars>>

\* truncateTables(truncateTables(tables, maxLength), maxLength)
CallTruncateTablesAgain ==
    /\ tpc = "once"
    /\ call.fn = "truncateTables"
    /\ ret2' = truncateTablesJs(ret, call.maxLength)
    /\ tpc' = "twice"
    /\ UNCHANGED <<call, ret, budgeterVars, convertVars, appVars, fetchVars, extensionVars>>

\* truncateDescription(description, maxLength)
CallTruncateDescription ==
    /\ tpc = "ready"
    /\ call.fn = "truncateDescription"
    /\ ret' = truncateDescriptionJs(call.arg, call.maxLength)
    /\ tpc' = "once"
    /\ UNCHANGED <<call, ret2, budgeterVars, convertVars, appVars, fetchVars, extensionVars>>

\* truncateDescription(truncateDescription(description, maxLength), maxLength)
CallTruncateDescriptionAgain ==
    /\ tpc = "once"
    /\ call.fn = "truncateDescription"
    /\ ret2' = truncateDescriptionJs(ret, call.maxLength)
    /\ tpc' = "twice"
    /\ UNCHANGED <<call, ret, budgeterVars, convertVars, appVars, fetchVars, extensionVars>>

NextTruncate ==
    \/ CallTruncateTables
    \/ CallTruncateTablesAgain
    \/ CallTruncateDescription
    \/ CallTruncateDescriptionAgain

SpecTruncate == InitTruncate /\ [][NextTruncate]_vars

-----------------------------------------------------------------------------
(* Properties of truncateTables and truncateDescription, checked under
   SpecTruncate *)

\* C6: truncateTables(t, n) returns t unchanged whenever t is empty, null or
\* undefined or has at most n characters, and truncateDescription(d, n)
\* returns d unchanged under the same conditions on d.
UnchangedWithinMaxLength ==
    (/\ tpc \in {"once", "twice"}
     /\ \/ call.arg.type # "string"
        \/ call.arg.s = <<>>
        \/ Len(call.arg.s) <= call.maxLength)
        => ret = call.arg

ReturnedAtExactlyMaxLength ==
    /\ tpc = "once"
    /\ call.arg.type = "string"
    /\ call.arg.s # <<>>
    /\ Len(call.arg.s) = call.maxLength
    /\ ret = call.arg

\* C7: truncating again with the same limit changes nothing more:
\* truncateTables(truncateTables(t, n), n) = truncateTables(t, n), and the
\* same for truncateDescription, also when the first call returned only the
\* omission sentence or only the truncation notice.
TruncationIdempotent ==
    tpc = "twice" => ret2 = ret

TruncatedTwiceToTheSame ==
    /\ tpc = "twice"
    /\ ret # call.arg
    /\ ret.s \notin {tablesOmittedNote, ellipsisNote}
    /\ ret2 = ret

-----------------------------------------------------------------------------
(* htmlToWiki.js: the regular expressions *)

\* The i flag: letters are compared without their case.
caseFolded ==
    LET UpperCaseLetters ==
            <<"A","B","C","D","E","F","G","H","I","J","K","L","M","N","O","P","Q","R","S","T",
              "U","V","W","X","Y","Z">>
        LowerCaseLetters ==
            <<"a","b","c","d","e","f","g","h","i","j","k","l","m","n","o","p","q","r","s","t",
              "u","v","w","x","y","z">>
    IN  [c \in DOMAIN CharCode |->
            IF \E k \in 1..Len(UpperCaseLetters) : UpperCaseLetters[k] = c
            THEN LowerCaseLetters[CHOOSE k \in 1..Len(UpperCaseLetters) : UpperCaseLetters[k] = c]
            ELSE c]

\* The literal lit (in lower case) stands at position i of s, whatever the
\* case of the letters of s.
LiteralAt(s, i, lit) ==
    /\ i >= 1
    /\ i + Len(lit) - 1 <= Len(s)
    /\ \A k \in 1..Len(lit) : caseFolded[s[i + k - 1]] = lit[k]

\* The first position from i on that holds the character c, or 0.
RECURSIVE FirstChar(_, _, _)
FirstChar(s, i, c) ==
    IF i > Len(s) THEN 0
    ELSE IF s[i] = c THEN i
    ELSE FirstChar(s, i + 1, c)

\* The first position from i on at which lit stands, or 0.
RECURSIVE FirstLiteral(_, _, _)
FirstLiteral(s, i, lit) ==
    IF i + Len(lit) - 1 > Len(s) THEN 0
    ELSE IF LiteralAt(s, i, lit) THEN i
    ELSE FirstLiteral(s, i + 1, lit)

\* A match: the positions from..to matched, group..groupEnd captured by
\* (.*?); to = 0 stands for no match.
NoMatch == [from |-> 0, to |-> 0, group |-> 0, groupEnd |-> 0]

\* /<open[^>]*>(.*?)<\/close>/ at position i.  [^>]* ends before the first
\* > after the opening, and the lazy .*? ends before the first closing
\* literal; without the s flag the dot matches no newline.
ElementAt(s, i, re) ==
    IF ~LiteralAt(s, i, re.open) THEN NoMatch
    ELSE LET gt == FirstChar(s, i + Len(re.open), ">")
             closing == IF gt = 0 THEN 0 ELSE FirstLiteral(s, gt + 1, re.close)
         IN  IF closing = 0 THEN NoMatch
             ELSE IF ~re.dotAll /\ \E k \in (gt + 1)..(closing - 1) : s[k] = NEWLINE
                  THEN NoMatch
             ELSE [from |-> i, to |-> closing + Len(re.close) - 1,
                   group |-> gt + 1, groupEnd |-> closing - 1]

\* /<open[^>]*>/ at position i.
OpenTagAt(s, i, re) ==
    IF ~LiteralAt(s, i, re.open) THEN NoMatch
    ELSE LET gt == FirstChar(s, i + Len(re.open), ">")
         IN  IF gt = 0 THEN NoMatch
             ELSE [from |-> i, to |-> gt, group |-> 1, groupEnd |-> 0]

\* A literal at position i.
WholeLiteralAt(s, i, re) ==
    IF LiteralAt(s, i, re.open)
    THEN [from |-> i, to |-> i + Len(re.open) - 1, group |-> 1, groupEnd |-> 0]
    ELSE NoMatch

\* A literal at position i, the case of its letters counting (no i flag).
ExactLiteralAt(s, i, re) ==
    IF i + Len(re.open) - 1 <= Len(s) /\ SubSeq(s, i, i + Len(re.open) - 1) = re.open
    THEN [from |-> i, to |-> i + Len(re.open) - 1, group |-> 1, groupEnd |-> 0]
    ELSE NoMatch

\* /<br\s*\/?>/i at position i.
BreakAt(s, i) ==
    IF ~LiteralAt(s, i, <<"<", "b", "r">>) THEN NoMatch
    ELSE LET afterSpaces == SkipSpaces(s, i + 3)
             afterSlash ==
                 IF afterSpaces <= Len(s) /\ s[afterSpaces] = "/"
                 THEN afterSpaces + 1 ELSE afterSpaces
         IN  IF afterSlash <= Len(s) /\ s[afterSlash] = ">"
             THEN [from |-> i, to |-> afterSlash, group |-> 1, groupEnd |-> 0]
             ELSE NoMatch

\* /<[^>]+>/ at position i: at least one character between < and the first >.
AnyTagAt(s, i) ==
    IF s[i] # "<" THEN NoMatch
    ELSE LET gt == FirstChar(s, i + 1, ">")
         IN  IF gt > i + 1 THEN [from |-> i, to |-> gt, group |-> 1, groupEnd |-> 0]
             ELSE NoMatch

\* The end of the run of apostrophes that starts at position i.
RECURSIVE ApostropheRunEnd(_, _)
ApostropheRunEnd(s, i) ==
    IF i < Len(s) /\ s[i + 1] = "'" THEN ApostropheRunEnd(s, i + 1) ELSE i

\* /'{2,}/ at position i, with the callback of step 4 as its capture: a run
\* of two or three is kept, a longer one is dropped.
ApostrophesAt(s, i) ==
    IF s[i] # "'" THEN NoMatch
    ELSE LET runEnd == ApostropheRunEnd(s, i)
         IN  IF runEnd = i THEN NoMatch
             ELSE IF runEnd - i + 1 \in {2, 3}
                  THEN [from |-> i, to |-> runEnd, group |-> i, groupEnd |-> runEnd]
             ELSE [from |-> i, to |-> runEnd, group |-> 1, groupEnd |-> 0]

\* The regular expression re at position i of s.
MatchAt(s, i, re) ==
    CASE re.kind = "element" -> ElementAt(s, i, re)
      [] re.kind = "openTag" -> OpenTagAt(s, i, re)
      [] re.kind = "literal" -> WholeLiteralAt(s, i, re)
      [] re.kind = "exact" -> ExactLiteralAt(s, i, re)
      [] re.kind = "break" -> BreakAt(s, i)
      [] re.kind = "anyTag" -> AnyTagAt(s, i)
      [] re.kind = "apostrophes" -> ApostrophesAt(s, i)

\* The g flag: the matches of re in s from position i on, left to right,
\* each search starting after the last match.
RECURSIVE MatchesFrom(_, _, _)
MatchesFrom(s, i, re) ==
    IF i > Len(s) THEN <<>>
    ELSE LET found == MatchAt(s, i, re)
         IN  IF found.to > 0 THEN <<found>> \o MatchesFrom(s, found.to + 1, re)
             ELSE MatchesFrom(s, i + 1, re)

\* Without the g flag: the first match of re in s, or NoMatch.
RECURSIVE FirstMatchFrom(_, _, _)
FirstMatchFrom(s, i, re) ==
    IF i > Len(s) THEN NoMatch
    ELSE LET found == MatchAt(s, i, re)
         IN  IF found.to > 0 THEN found ELSE FirstMatchFrom(s, i + 1, re)

\* String.prototype.match(re) with the g flag: the matched texts.
MatchAll(s, re) ==
    LET found == MatchesFrom(s, 1, re)
    IN  [k \in 1..Len(found) |-> SubSeq(s, found[k].from, found[k].to)]

\* s with the matches found replaced, each by before + $1 + after.
ReplaceFound(s, found, before, after) ==
    Concat([k \in 1..(2 * Len(found) + 1) |->
        IF k % 2 = 1
        THEN SubSeq(s, IF k = 1 THEN 1 ELSE found[(k - 1) \div 2].to + 1,
                       IF k = 2 * Len(found) + 1 THEN Len(s) ELSE found[(k + 1) \div 2].from - 1)
        ELSE before \o SubSeq(s, found[k \div 2].group, found[k \div 2].groupEnd) \o after])

\* String.prototype.replace(re, before + "$1" + after) with the g flag; no
\* regular expression of the file matches in the empty string.
ReplaceAll(s, re, before, after) ==
    IF s = <<>> THEN s ELSE ReplaceFound(s, MatchesFrom(s, 1, re), before, after)

\* String.prototype.replace(re, "$1") without the g flag.
ReplaceFirst(s, re) ==
    LET found == FirstMatchFrom(s, 1, re)
    IN  IF s = <<>> \/ found.to = 0 THEN s ELSE ReplaceFound(s, <<found>>, <<>>, <<>>)

\* The regular expressions of htmlToWiki.js. An element is
\* <open[^>]*>(.*?)</close>, with the s flag where dotAll; all of them but
\* anyTag and apostropheRun have the i flag.
regex ==
    [
     \* /<table[^>]*>.*?<\/table>/gis
     tableElement |->
         [kind |-> "element", open |-> <<"<","t","a","b","l","e">>,
          close |-> <<"<","/","t","a","b","l","e",">">>, dotAll |-> TRUE],
     \* /<strong[^>]*>(.*?)<\/strong>/gi
     strongElement |->
         [kind |-> "element", open |-> <<"<","s","t","r","o","n","g">>,
          close |-> <<"<","/","s","t","r","o","n","g",">">>, dotAll |-> FALSE],
     \* /<b[^>]*>(.*?)<\/b>/gi
     bElement |->
         [kind |-> "element", open |-> <<"<","b">>,
          close |-> <<"<","/","b",">">>, dotAll |-> FALSE],
     \* /<em[^>]*>(.*?)<\/em>/gi
     emElement |->
         [kind |-> "element", open |-> <<"<","e","m">>,
          close |-> <<"<","/","e","m",">">>, dotAll |-> FALSE],
     \* /<i[^>]*>(.*?)<\/i>/gi
     iElement |->
         [kind |-> "element", open |-> <<"<","i">>,
          close |-> <<"<","/","i",">">>, dotAll |-> FALSE],
     \* /<tr[^>]*>(.*?)<\/tr>/gis
     trElement |->
         [kind |-> "element", open |-> <<"<","t","r">>,
          close |-> <<"<","/","t","r",">">>, dotAll |-> TRUE],
     \* /<th[^>]*>.*?<\/th>/gis
     thElement |->
         [kind |-> "element", open |-> <<"<","t","h">>,
          close |-> <<"<","/","t","h",">">>, dotAll |-> TRUE],
     \* /<td[^>]*>.*?<\/td>/gis
     tdElement |->
         [kind |-> "element", open |-> <<"<","t","d">>,
          close |-> <<"<","/","t","d",">">>, dotAll |-> TRUE],
     \* /<\/p>/gi
     paragraphEnd |-> [kind |-> "literal", open |-> <<"<","/","p",">">>],
     \* /<br\s*\/?>/gi
     lineBreak |-> [kind |-> "break"],
     \* /<li[^>]*>/gi
     listItem |-> [kind |-> "openTag", open |-> <<"<","l","i">>],
     \* /<[^>]+>/g
     anyTag |-> [kind |-> "anyTag"],
     \* /'{2,}/g
     apostropheRun |-> [kind |-> "apostrophes"]
    ]

\* The Greek capital letter delta (U+0394), one character, as the tests of
\* the entities write it.
DELTA == "U+0394"

\* The fallback entity table, in the order of the replace chain: the
\* entity and the text written for it. The text written for &Delta; is the
\* two characters U+00CE U+201D of the source file, each one character here.
entityTable ==
    << <<<<"&","a","m","p",";">>, <<"&">>>>,
       <<<<"&","l","t",";">>, <<"<">>>>,
       <<<<"&","g","t",";">>, <<">">>>>,
       <<<<"&","q","u","o","t",";">>, <<"\"">>>>,
       <<<<"&","#","3","9",";">>, <<"'">>>>,
       <<<<"&","D","e","l","t","a",";">>, <<"U+00CE", "U+201D">>>> >>

\* The markers written by the conversion.
boldMarker == <<"'", "'", "'">>

italicMarker == <<"'", "'">>

-----------------------------------------------------------------------------
(* htmlToWiki.js: convertInlineFormatting, convertTableToWikiMarkup and the
   steps of cleanDescription *)

\* The replace chain shared by step 2 and convertInlineFormatting: bold and
\* italic tags to wiki markers.
convertBoldItalic(h) ==
    LET strong == ReplaceAll(h, regex.strongElement, boldMarker, boldMarker)
        b == ReplaceAll(strong, regex.bElement, boldMarker, boldMarker)
        em == ReplaceAll(b, regex.emElement, italicMarker, italicMarker)
    IN  ReplaceAll(em, regex.iElement, italicMarker, italicMarker)

\* .replace(/<[^>]+>/g, "") with every tag left in.
stripTagsSkipped(t) == t

\* .replace(/<[^>]+>/g, "")
stripTags(t) == ReplaceAll(t, regex.anyTag, <<>>, <<>>)

convertInlineFormatting(h) == stripTags(convertBoldItalic(h))

\* '! ' + content + '\n' or '| ' + content + '\n' for one cell
cellLine(cell, re, mark) ==
    <<mark, " ">> \o convertInlineFormatting(Trim(ReplaceFirst(cell, re))) \o <<NEWLINE>>

\* The callback of rows.forEach: what one row appends to wikiTable.
rowLines(row, rowIndex) ==
    LET thCells == MatchAll(row, regex.thElement)
        tdCells == MatchAll(row, regex.tdElement)
    IN  IF thCells = <<>> /\ tdCells = <<>> THEN <<>>
        ELSE (IF rowIndex > 0 THEN <<"|", "-", NEWLINE>> ELSE <<>>)
             \o Concat([k \in 1..Len(thCells) |-> cellLine(thCells[k], regex.thElement, "!")])
             \o Concat([k \in 1..Len(tdCells) |-> cellLine(tdCells[k], regex.tdElement, "|")])

convertTableToWikiMarkup(tableHtml) ==
    LET tableContent == FirstMatchFrom(tableHtml, 1, regex.tableElement)
        rows == MatchAll(SubSeq(tableHtml, tableContent.group, tableContent.groupEnd),
                         regex.trElement)
    IN  IF tableContent.to = 0 THEN <<>>
        ELSE IF rows = <<>> THEN <<>>
        ELSE tableOpenMarker \o <<NEWLINE>>
             \o Concat([k \in 1..Len(rows) |-> rowLines(rows[k], k - 1)])
             \o <<"|", "}">>

\* Step 1 with the callback returning the match: the tables stay in the text.
htmlWithTablesLeft(h) == h

\* Step 1: html.replace(/<table[^>]*>.*?<\/table>/gis, ...) with the
\* callback returning ""
htmlWithoutTables(h) ==
    LET found == MatchesFrom(h, 1, regex.tableElement)
    IN  ReplaceFound(h, [k \in 1..Len(found) |-> [found[k] EXCEPT !.group = 1, !.groupEnd = 0]],
                     <<>>, <<>>)

\* Step 2: bold, italic, then the structural replacements.
convertFormatting(h) ==
    LET paragraphs ==
            ReplaceAll(convertBoldItalic(h), regex.paragraphEnd, <<NEWLINE, NEWLINE>>, <<>>)
        breaks == ReplaceAll(paragraphs, regex.lineBreak, <<NEWLINE>>, <<>>)
    IN  ReplaceAll(breaks, regex.listItem, <<NEWLINE, "*", " ">>, <<>>)

\* Step 4 left out: every apostrophe run stays.
removeApostropheRunsKeepingAll(t) == t

\* Step 4: apostrophe runs other than two and three are removed.
removeApostropheRuns(t) == ReplaceAll(t, regex.apostropheRun, <<>>, <<>>)

\* Step 5, the branch taken where DOMParser is undefined: the replace chain
\* from entity k of the table on.
RECURSIVE decodeEntitiesFrom(_, _)
decodeEntitiesFrom(t, k) ==
    IF k > Len(entityTable) THEN t
    ELSE decodeEntitiesFrom(
             ReplaceAll(t, [kind |-> "exact", open |-> entityTable[k][1]],
                        entityTable[k][2], <<>>),
             k + 1)

decodeEntities(t) == decodeEntitiesFrom(t, 1)

\* Step 6 left out: the lines stay as they are.
cleanupWhitespaceKeepingLines(t) == t

\* Step 6: split on newlines, trim each line, drop the empty ones, join.
cleanupWhitespace(t) ==
    LET lines == SplitLines(t)
        kept == Where([k \in 1..Len(lines) |-> Len(Trim(lines[k])) > 0], 1, Len(lines))
    IN  Join([k \in 1..Len(kept) |-> Trim(lines[kept[k]])], <<NEWLINE>>)

\* Step 7: the converted tables, a blank line between them.
joinTables(tableHtmls) ==
    Join([k \in 1..Len(tableHtmls) |-> convertTableToWikiMarkup(tableHtmls[k])],
         <<NEWLINE, NEWLINE>>)

-----------------------------------------------------------------------------
(* The calls checked: arguments of cleanDescription, written as a sequence
   of pieces *)

MaxProseTokens == 3
MaxTableTokens == 5

\* The pieces the inputs of cleanDescription are made of.
token ==
    [
     \* text: one capital letter, which occurs in no tag and no entity
     textX |-> <<"X">>,
     textY |-> <<"Y">>,
     boldOpen |-> <<"<","b",">">>,
     boldClose |-> <<"<","/","b",">">>,
     entityLt |-> <<"&","l","t",";">>,
     entityGt |-> <<"&","g","t",";">>,
     entityAmp |-> <<"&","a","m","p",";">>,
     entityQuot |-> <<"&","q","u","o","t",";">>,
     entityApos |-> <<"&","#","3","9",";">>,
     entityDelta |-> <<"&","D","e","l","t","a",";">>,
     \* a table with one row and one cell, opened and closed
     tableCellOpen |-> <<"<","t","a","b","l","e",">","<","t","r",">","<","t","d",">">>,
     tableCellClose |->
         <<"<","/","t","d",">","<","/","t","r",">","<","/","t","a","b","l","e",">">>,
     \* a table opened without a row
     tableOpen |-> <<"<","t","a","b","l","e",">">>
    ]

TextTokens == {token.textX, token.textY}

\* The inputs of cleanDescription that are checked, as sequences of pieces:
\* at most MaxProseTokens pieces of prose, at most MaxTableTokens pieces of
\* tables, and the mixed content of the tests.
ConvertTokenInputs ==
    LET ProseTokens ==
            TextTokens \cup {token.boldOpen, token.boldClose, token.entityLt, token.entityGt,
                             token.entityAmp, <<"<">>, <<">">>, <<"'", "'">>}
        TableTokens == TextTokens \cup {token.tableCellOpen, token.tableCellClose, token.tableOpen}
        \* the sequences of at most n pieces of S
        TokenSeqs(S, n) == UNION {[1..k -> S] : k \in 0..n}
        \* each text letter occurs at most once, so that it can be told where
        \* a letter of the output comes from
        DistinctText(tokens) ==
            \A i, j \in 1..Len(tokens) :
                (tokens[i] \in TextTokens /\ tokens[i] = tokens[j]) => i = j
        \* "<p>See <b>X</b></p><table><tr><th>H</th></tr><tr><td>Y</td></tr></table><p>end</p>"
        mixedContent ==
            << <<"<","p",">","S","e","e"," ">>, token.boldOpen, token.textX, token.boldClose,
               <<"<","/","p",">">>,
               <<"<","t","a","b","l","e",">","<","t","r",">","<","t","h",">","H","<","/","t","h",
                 ">","<","/","t","r",">">>,
               <<"<","t","r",">","<","t","d",">">>, token.textY, token.tableCellClose,
               <<"<","p",">","e","n","d","<","/","p",">">> >>
        paragraphOpen == <<"<","p",">">>
        paragraphClose == <<"<","/","p",">">>
        \* the inputs of the tests of the entities, an entity written as
        \* text ("&amp;lt;" and "&amp;amp;"), and apostrophes written as
        \* entities next to each other and next to markup
        entityContent ==
            { <<paragraphOpen, token.entityAmp, <<" ">>, token.entityLt, <<" ">>,
                token.entityGt, <<" ">>, token.entityQuot, paragraphClose>>,
              <<paragraphOpen, token.entityDelta, token.entityDelta, paragraphClose>>,
              <<<<"<","e","m",">","<","/","e","m",">">>, token.entityDelta, token.entityDelta>>,
              <<token.entityAmp, <<"l","t",";">>>>,
              <<token.entityAmp, <<"a","m","p",";">>>>,
              <<token.textX, token.entityApos, token.textY>>,
              <<token.entityApos, token.entityApos, token.entityApos, token.entityApos>>,
              <<token.boldOpen, token.textX, token.boldClose, token.entityApos>> }
        \* lines with spaces at their ends, empty lines and lines of spaces
        spacedContent ==
            { <<paragraphOpen, <<" ">>, token.textX, <<" ">>, paragraphClose, <<" ">>,
                token.textY, <<" ">>>>,
              <<<<" ", NEWLINE, " ", NEWLINE, NEWLINE>>, token.textX, <<" ", " ", NEWLINE, " ">>,
                paragraphOpen, paragraphClose, token.textY, <<NEWLINE, NEWLINE>>>>,
              <<<<" ", NEWLINE, " ">>, paragraphOpen, paragraphClose>> }
        emptyRow == <<"<","t","r",">","<","/","t","r",">">>
        rowCellOpen == <<"<","t","r",">","<","t","d",">">>
        rowCellClose == <<"<","/","t","d",">","<","/","t","r",">">>
        tableClose == <<"<","/","t","a","b","l","e",">">>
        \* tables with rows that have no cells: before, between and after
        \* the rows with cells, and alone
        rowContent ==
            { <<token.tableOpen, emptyRow, rowCellOpen, token.textX, token.tableCellClose>>,
              <<token.tableCellOpen, token.textX, rowCellClose, emptyRow, rowCellOpen,
                token.textY, token.tableCellClose>>,
              <<token.tableCellOpen, token.textX, rowCellClose, emptyRow, tableClose>>,
              <<token.tableOpen, emptyRow, emptyRow, tableClose>> }
        italicOpen == <<"<","e","m",">">>
        italicClose == <<"<","/","e","m",">">>
        \* one cell with inline content: bold and italic elements, one in the
        \* other, empty ones, and entities
        cellContent ==
            { <<token.tableCellOpen>> \o content \o <<token.tableCellClose>> :
                content \in
                    { <<token.boldOpen, token.textX, token.boldClose>>,
                      <<italicOpen, token.textX, italicClose, <<" ">>, token.textY>>,
                      <<token.boldOpen, italicOpen, token.textX, italicClose, token.boldClose>>,
                      <<token.boldOpen, token.boldClose, token.textX>>,
                      <<token.textX, italicOpen, italicClose>>,
                      <<token.textX, <<" ">>, token.entityAmp, <<" ">>, token.textY>>,
                      <<token.textX, token.entityApos, token.textY>> } }
        strongOpen == <<"<","s","t","r","o","n","g",">">>
        strongClose == <<"<","/","s","t","r","o","n","g",">">>
        \* prose with emphasis elements: the four tags, one element in the
        \* other or next to the other, and next to an apostrophe
        emphasisContent ==
            { <<strongOpen, token.textX, strongClose, <<" ">>, <<"<","i",">">>, token.textY,
                <<"<","/","i",">">>>>,
              <<token.boldOpen, italicOpen, token.textX, italicClose, token.boldClose>>,
              <<italicOpen, token.boldOpen, token.textX, token.boldClose, italicClose>>,
              <<token.boldOpen, token.textX, token.boldClose, italicOpen, token.textY,
                italicClose>>,
              <<token.boldOpen, token.textX, token.boldClose, <<"'">>>>,
              <<<<"'">>, italicOpen, token.textX, italicClose, <<"'", "s">>>> }
    IN  {tokens \in TokenSeqs(ProseTokens, MaxProseTokens)
                    \cup TokenSeqs(TableTokens, MaxTableTokens) : DistinctText(tokens)}
        \cup {mixedContent} \cup entityContent \cup spacedContent \cup rowContent
        \cup cellContent \cup emphasisContent

-----------------------------------------------------------------------------
(* cleanDescription(html), one action for each numbered step *)

InitConvert ==
    /\ \/ /\ htmlTokens \in ConvertTokenInputs
          /\ html = JsString(Concat(htmlTokens))
       \/ /\ htmlTokens = <<>>
          /\ html \in {JsNull, JsUndefined}
    /\ cpc = "start"
    /\ text = <<>>
    /\ extractedTables = <<>>
    /\ converted = [description |-> <<>>, tables |-> <<>>]
    /\ BudgeterIdle
    /\ TruncateIdle
    /\ AppIdle
    /\ ExtensionIdle
    /\ FetchIdle

\* if (!html) return { description: "", tables: "" };
ReturnEmpty ==
    /\ cpc = "start"
    /\ html.type # "string" \/ html.s = <<>>
    /\ converted' = [description |-> <<>>, tables |-> <<>>]
    /\ cpc' = "done"
    /\ UNCHANGED <<html, htmlTokens, text, extractedTables,
                 budgeterVars, truncateVars, appVars, fetchVars, extensionVars>>

\* 1. Extract and convert tables to WikiMarkup, then remove them from the HTML
ExtractTables ==
    /\ cpc = "start"
    /\ html.type = "string" /\ html.s # <<>>
    /\ extractedTables' = MatchAll(html.s, regex.tableElement)
    /\ text' = htmlWithoutTables(html.s)
    /\ cpc' = "step2"
    /\ UNCHANGED <<html, htmlTokens, converted,
                 budgeterVars, truncateVars, appVars, fetchVars, extensionVars>>

\* 2. Convert other HTML to WikiMarkup formatting
ConvertFormatting ==
    /\ cpc = "step2"
    /\ text' = convertFormatting(text)
    /\ cpc' = "step3"
    /\ UNCHANGED <<html, htmlTokens, extractedTables, converted,
                 budgeterVars, truncateVars, appVars, fetchVars, extensionVars>>

\* 3. Strip remaining tags (after WikiMarkup conversion)
StripRemainingTags ==
    /\ cpc = "step3"
    /\ text' = stripTags(text)
    /\ cpc' = "step4"
    /\ UNCHANGED <<html, htmlTokens, extractedTables, converted,
                 budgeterVars, truncateVars, appVars, fetchVars, extensionVars>>

\* 4. Remove empty wiki markup
RemoveEmptyMarkup ==
    /\ cpc = "step4"
    /\ text' = removeApostropheRuns(text)
    /\ cpc' = "step5"
    /\ UNCHANGED <<html, htmlTokens, extractedTables, converted,
                 budgeterVars, truncateVars, appVars, fetchVars, extensionVars>>

\* 5. Decode HTML entities: the fallback, DOMParser being undefined
DecodeEntities ==
    /\ cpc = "step5"
    /\ text' = decodeEntities(text)
    /\ cpc' = "step6"
    /\ UNCHANGED <<html, htmlTokens, extractedTables, converted,
                 budgeterVars, truncateVars, appVars, fetchVars, extensionVars>>

\* 6. Cleanup whitespace
CleanupWhitespace ==
    /\ cpc = "step6"
    /\ converted' = [converted EXCEPT !.description = cleanupWhitespace(text)]
    /\ cpc' = "step7"
    /\ UNCHANGED <<html, htmlTokens, text, extractedTables,
                 budgeterVars, truncateVars, appVars, fetchVars, extensionVars>>

\* 7. Convert extracted tables to WikiMarkup; return { description, tables }
ConvertTables ==
    /\ cpc = "step7"
    /\ converted' = [converted EXCEPT !.tables = joinTables(extractedTables)]
    /\ cpc' = "done"
    /\ UNCHANGED <<html, htmlTokens, text, extractedTables,
                 budgeterVars, truncateVars, appVars, fetchVars, extensionVars>>

NextConvert ==
    \/ ReturnEmpty
    \/ ExtractTables
    \/ ConvertFormatting
    \/ StripRemainingTags
    \/ RemoveEmptyMarkup
    \/ DecodeEntities
    \/ CleanupWhitespace
    \/ ConvertTables

SpecConvert == InitConvert /\ [][NextConvert]_vars

-----------------------------------------------------------------------------
(* Properties of cleanDescription, checked under SpecConvert *)

\* The table elements of the argument, read from its pieces: a piece that
\* opens a table, a piece that closes one.
OpensTable(piece) == piece \in {token.tableOpen, token.tableCellOpen}

ClosesTable(piece) == piece = token.tableCellClose

\* The closing piece of the table opened at piece j, tables in tables
\* counted, looked for from piece k on with depth tables open; 0 if the
\* table is not closed.
RECURSIVE ClosingPiece(_, _, _)
ClosingPiece(tokens, k, depth) ==
    IF k > Len(tokens) THEN 0
    ELSE IF ClosesTable(tokens[k])
         THEN (IF depth = 1 THEN k ELSE ClosingPiece(tokens, k + 1, depth - 1))
    ELSE IF OpensTable(tokens[k]) THEN ClosingPiece(tokens, k + 1, depth + 1)
    ELSE ClosingPiece(tokens, k + 1, depth)

\* Piece i lies in a table element: after its opening, before its closing.
InTableElement(tokens, i) ==
    \E j \in 1..(i - 1) : OpensTable(tokens[j]) /\ ClosingPiece(tokens, j + 1, 1) > i

\* A table element lies in another one.
NestedTables(tokens) ==
    \E i \in 1..Len(tokens) : OpensTable(tokens[i]) /\ InTableElement(tokens, i)

\* The character c occurs in s.
Occurs(c, s) == \E k \in 1..Len(s) : s[k] = c

\* The text of the table elements is in t, and table markup is in t.
TableTextIn(tokens, t) ==
    \E i \in 1..Len(tokens) :
        tokens[i] \in TextTokens /\ InTableElement(tokens, i) /\ Occurs(tokens[i][1], t)

TableMarkupIn(t) == Occurs("{", t) \/ Occurs("|", t) \/ Occurs("}", t)

\* C8 as stated: for every input, every table element is removed from the
\* prose before any other conversion, so the description holds neither
\* generated table markup nor the cell text of a table.
TablesNeverInDescription ==
    /\ cpc = "step2" => ~TableTextIn(htmlTokens, text)
    /\ cpc = "done" =>
          ~TableTextIn(htmlTokens, converted.description)
          /\ ~TableMarkupIn(converted.description)

\* C8, amended: the same for every input whose table elements are not
\* nested in one another.
UnnestedTablesNeverInDescription ==
    ~NestedTables(htmlTokens) =>
        /\ cpc = "step2" => ~TableTextIn(htmlTokens, text)
        /\ cpc = "done" =>
              ~TableTextIn(htmlTokens, converted.description)
              /\ ~TableMarkupIn(converted.description)

TableTextOnlyInTables ==
    /\ cpc = "done"
    /\ ~NestedTables(htmlTokens)
    /\ TableTextIn(htmlTokens, converted.tables)
    /\ ~TableTextIn(htmlTokens, converted.description)
    /\ converted.description # <<>>
    /\ TableMarkupIn(converted.tables)

\* The position in the argument of the first character of piece i.
PieceStart(tokens, i) == Len(Concat(SubSeq(tokens, 1, i - 1))) + 1

\* Position p of s lies in a tag: a < before it with no > in between, and a
\* > after it.
InTag(s, p) ==
    /\ \E i \in 1..(p - 1) : s[i] = "<" /\ \A k \in (i + 1)..(p - 1) : s[k] # ">"
    /\ \E j \in (p + 1)..Len(s) : s[j] = ">"

\* C9: cleanDescription never loses text: every text character of the
\* argument that lies outside a tag is in the description or in the tables.
TextNeverLost ==
    cpc = "done" =>
        \A i \in 1..Len(htmlTokens) :
            (htmlTokens[i] \in TextTokens /\ ~InTag(html.s, PieceStart(htmlTokens, i)))
                => \/ Occurs(htmlTokens[i][1], converted.description)
                   \/ Occurs(htmlTokens[i][1], converted.tables)

\* s holds the syntax of a tag: a <, one or more characters other than >,
\* and a >.
HasTagSyntax(s) ==
    \E i \in 1..Len(s) :
        /\ s[i] = "<"
        /\ i + 1 <= Len(s) /\ s[i + 1] # ">"
        /\ \E j \in (i + 2)..Len(s) : s[j] = ">"

\* C10 as stated: for every input, the description returned holds no tag
\* syntax.
DescriptionWithoutTags ==
    cpc = "done" => ~HasTagSyntax(converted.description)

\* C10, amended: the text holds no tag syntax once step 3 has stripped the
\* tags, up to the decoding of the entities; the description returned holds
\* none for an argument without entities (without the character &).
NoTagsUntilEntitiesDecoded ==
    /\ cpc \in {"step4", "step5"} => ~HasTagSyntax(text)
    /\ (cpc = "done" /\ ~Occurs("&", html.s)) => ~HasTagSyntax(converted.description)

TagsStrippedFromDescription ==
    /\ cpc = "done"
    /\ HasTagSyntax(html.s)
    /\ ~Occurs("&", html.s)
    /\ converted.description # <<>>
    /\ ~HasTagSyntax(converted.description)

-----------------------------------------------------------------------------
(* cleanDescription: the entities *)

\* The entities and the literal character of each.
entityCharacters ==
    << <<<<"&","a","m","p",";">>, "&">>,
       <<<<"&","l","t",";">>, "<">>,
       <<<<"&","g","t",";">>, ">">>,
       <<<<"&","q","u","o","t",";">>, "\"">>,
       <<<<"&","#","3","9",";">>, "'">>,
       <<<<"&","D","e","l","t","a",";">>, DELTA>> >>

RECURSIVE decodedOnceFrom(_, _)
\* Every entity of t replaced by its character in one pass from the left:
\* the text written for an entity is not read again.
decodedOnceFrom(t, i) ==
    IF i > Len(t) THEN <<>>
    ELSE LET at == {k \in 1..Len(entityCharacters) :
                       /\ i + Len(entityCharacters[k][1]) - 1 <= Len(t)
                       /\ SubSeq(t, i, i + Len(entityCharacters[k][1]) - 1)
                              = entityCharacters[k][1]}
         IN  IF at = {} THEN <<t[i]>> \o decodedOnceFrom(t, i + 1)
             ELSE LET k == CHOOSE k \in at : TRUE
                  IN  <<entityCharacters[k][2]>>
                      \o decodedOnceFrom(t, i + Len(entityCharacters[k][1]))

\* The text of steps 1 to 4: tables taken out, formatting converted, tags
\* stripped, apostrophe runs removed.
strippedText(h) ==
    removeApostropheRuns(stripTags(convertFormatting(htmlWithoutTables(h))))

\* C11: without a browser decoder, the description returned is the stripped
\* text with each of &amp; &lt; &gt; &quot; &#39; &Delta; replaced once by
\* its character (& < > " ' and the letter delta), lines trimmed.
EntitiesDecodedOnce ==
    (cpc = "done" /\ html.type = "string" /\ html.s # <<>>) =>
        converted.description
            = cleanupWhitespace(decodedOnceFrom(strippedText(html.s), 1))
-----------------------------------------------------------------------------
(* App.svelte: licenseMap, getCommonsLicense, normalizeOrcid,              *)
(* formatCreators, buildUploadUrl                                          *)

\* A JavaScript value is falsy when it is undefined, null or the empty
\* string; objects, functions and arrays are truthy.
Truthy(v) == ~(v.type \in {"undefined", "null"} \/ (v.type = "string" /\ v.s = <<>>))

\* String(v), as a template literal and URLSearchParams write a value.
JsToString(v) ==
    IF v.type = "undefined" THEN <<"u","n","d","e","f","i","n","e","d">>
    ELSE IF v.type = "null" THEN <<"n","u","l","l">>
    ELSE v.s

\* String.prototype.toLowerCase
toLowerCase(s) == [i \in 1..Len(s) |-> caseFolded[s[i]]]

\* The own properties of licenseMap: key and value.
licenseMap ==
    << <<<<"c","c","-","b","y","-","4",".","0">>, <<"c","c","-","b","y","-","4",".","0">>>>,
       <<<<"c","c","-","b","y","-","s","a","-","4",".","0">>, <<"c","c","-","b","y","-","s","a","-","4",".","0">>>>,
       <<<<"c","c","0","-","1",".","0">>, <<"C","c","-","z","e","r","o">>>>,
       <<<<"c","c","-","b","y">>, <<"c","c","-","b","y","-","4",".","0">>>>,
       <<<<"c","c","-","b","y","-","s","a">>, <<"c","c","-","b","y","-","s","a","-","4",".","0">>>>,
       <<<<"c","c","0">>, <<"C","c","-","z","e","r","o">>>> >>

\* getCommonsLicense(zenodoLicenseId)
getCommonsLicense(zenodoLicenseId) ==
    LET
        \* The properties an object literal inherits from Object.prototype whose
        \* names are in lower case, as licenseMap[id] finds them: the function
        \* Object and the prototype object, with the text String() gives for each.
        inheritedProperties ==
            << \* "constructor": "function Object() { [native code] }"
               <<<<"c","o","n","s","t","r","u","c","t","o","r">>,
                 [type |-> "function",
                  s |-> <<"f","u","n","c","t","i","o","n"," ","O","b","j","e","c","t","(",")"," ","{",
                          " ","[","n","a","t","i","v","e"," ","c","o","d","e","]"," ","}">>]>>,
               \* "__proto__": "[object Object]"
               <<<<"_","_","p","r","o","t","o","_","_">>,
                 [type |-> "object",
                  s |-> <<"[","o","b","j","e","c","t"," ","O","b","j","e","c","t","]">>]>> >>
        \* licenseMap[id]
        licenseMapAt(key) ==
            IF \E k \in 1..Len(licenseMap) : licenseMap[k][1] = key
            THEN JsString(licenseMap[CHOOSE k \in 1..Len(licenseMap) : licenseMap[k][1] = key][2])
            ELSE IF \E k \in 1..Len(inheritedProperties) : inheritedProperties[k][1] = key
            THEN inheritedProperties[CHOOSE k \in 1..Len(inheritedProperties) :
                                         inheritedProperties[k][1] = key][2]
            ELSE JsUndefined
        id == toLowerCase(IF Truthy(zenodoLicenseId) THEN zenodoLicenseId.s ELSE <<>>)
        found == licenseMapAt(id)
    IN  IF Truthy(found) THEN found ELSE JsString(<<>>)

\* normalizeOrcid(orcid): /^https?:\/\/orcid\.org\//i removed, then trim
normalizeOrcid(orcid) ==
    IF ~Truthy(orcid) THEN <<>>
    ELSE LET https == <<"h","t","t","p","s",":","/","/","o","r","c","i","d",".","o","r","g","/">>
             http == <<"h","t","t","p",":","/","/","o","r","c","i","d",".","o","r","g","/">>
             rest == IF LiteralAt(orcid.s, 1, https)
                     THEN SubSeq(orcid.s, Len(https) + 1, Len(orcid.s))
                     ELSE IF LiteralAt(orcid.s, 1, http)
                     THEN SubSeq(orcid.s, Len(http) + 1, Len(orcid.s))
                     ELSE orcid.s
         IN  Trim(rest)

\* formatCreators(creators)
formatCreators(creators) ==
    IF creators.type # "array" \/ creators.items = <<>> THEN <<>>
    ELSE LET \* the callback of creators.map
             creatorText(creator) ==
                 LET name == IF Truthy(creator.name) THEN creator.name.s ELSE <<>>
                     orcid == normalizeOrcid(creator.orcid)
                 IN  IF orcid # <<>>
                     THEN name \o <<" ","(","O","R","C","I","D",":"," ">> \o orcid \o <<")">>
                     ELSE name
             values == [k \in 1..Len(creators.items) |-> creatorText(creators.items[k])]
             kept == Where([k \in 1..Len(values) |-> Len(values[k]) > 0], 1, Len(values))
         IN  Join([k \in 1..Len(kept) |-> values[kept[k]]], <<";"," ">>)

\* testFormatCreators(creators) of App.test.js, the replica of formatCreators
\* that the tests run; its replace and trim are those of normalizeOrcid.
testFormatCreators(creators) ==
    IF creators.type # "array" \/ creators.items = <<>> THEN <<>>
    ELSE LET creatorText(creator) ==
                 LET name == IF Truthy(creator.name) THEN creator.name.s ELSE <<>>
                     orcid == normalizeOrcid(creator.orcid)
                 IN  IF orcid # <<>>
                     THEN name \o <<" ","(","{","{","O","R","C","I","D","|">> \o orcid
                          \o <<"}","}",")">>
                     ELSE name
             values == [k \in 1..Len(creators.items) |-> creatorText(creators.items[k])]
             kept == Where([k \in 1..Len(values) |-> Len(values[k]) > 0], 1, Len(values))
         IN  Join([k \in 1..Len(kept) |-> values[kept[k]]], <<";"," ">>)

\* cleanDescription(html) where it returns a string (src/unnamed/part_001),
\* for an argument without table elements: its step 1 changes nothing
\* then, and steps 2 to 6 are those of htmlToWiki.js.
cleanDescriptionText(h) ==
    IF ~Truthy(h) THEN <<>>
    ELSE \* the statements run in this order, each on the value of the last
         CHOOSE description \in
             {cleanupWhitespace(decoded) : decoded \in
                 {decodeEntities(unquoted) : unquoted \in
                     {removeApostropheRuns(stripped) : stripped \in
                         {stripTags(formatted) : formatted \in
                             {convertFormatting(h.s)}}}}} : TRUE

\* buildUploadUrl(file, record): null, or the upload URL
buildUploadUrl(file, rec) ==
    LET metadata == rec.metadata
        title == metadata.title
        date == metadata.publication_date
        source == <<"h","t","t","p","s",":","/","/","z","e","n","o","d","o",".","o","r","g","/","r","e","c","o",
  "r","d","s","/">> \o rec.id
        licenseId == IF Truthy(metadata.license) THEN metadata.license.id ELSE JsString(<<>>)
        \* title.replace(/[:\/\\?*|"><]/g, "").substring(0, 80)
        safeTitle ==
            LET unsafe == {":", "/", "\\", "?", "*", "|", "\"", ">", "<"}
                kept == Where([i \in 1..Len(title) |-> title[i] \notin unsafe], 1, Len(title))
            IN  Slice([k \in 1..Len(kept) |-> title[kept[k]]], 80)
        destFile == safeTitle \o <<" ","-"," ">> \o file.key
        infoTemplate(description, creatorsText) ==
            templateText.head \o title \o <<":", NEWLINE>> \o description
            \o templateText.date \o date
            \o templateText.source \o source
            \o templateText.author \o creatorsText
            \o templateText.permission \o rec.id
            \o <<"}","}","\n","[","[","C","a","t","e","g","o","r","y",":","M","e","d","i","a"," ","f","r","o",
  "m"," ","Z","e","n","o","d","o","]","]">>
    IN  \* the const declarations are evaluated first, in their order
        CHOOSE uploadUrl \in
            {IF ~Truthy(commonsLicense) THEN JsNull
             ELSE JsString(uploadBase \o serializeParams(<<
                      <<queryParam.wpUploadDescription, infoTemplate(description, creatorsText)>>,
                      <<queryParam.wpLicense, JsToString(commonsLicense)>>,
                      <<queryParam.wpDestFile, destFile>>,
                      <<queryParam.wpSourceType, queryParam.url>>,
                      <<queryParam.wpUploadFileURL, file.links.self>> >>)) :
                description \in {cleanDescriptionText(metadata.description)},
                creatorsText \in {formatCreators(metadata.creators)},
                commonsLicense \in {getCommonsLicense(licenseId)}} : TRUE

-----------------------------------------------------------------------------
(* The records rendered: license ids and creators *)

\* The creators of a record are at most MaxCreators.
MaxCreators == 2

\* The records of the Zenodo API that are rendered, each with two files.
AppRecords ==
    LET
        \* The license ids of the records: the keys of licenseMap, the same in
        \* capitals, ids of other licenses, ids that only resemble a key, and ids
        \* that name a property every object has.
        licenseIds ==
            { <<"c","c","-","b","y","-","4",".","0">>, <<"c","c","-","b","y","-","s","a","-","4",".","0">>, <<"c","c","0","-","1",".","0">>, <<"c","c","-","b","y">>, <<"c","c","-","b","y","-","s","a">>, <<"c","c","0">>,
              <<"C","C","-","B","Y","-","4",".","0">>, <<"C","c","0">>,
              <<"c","c","-","b","y","-","n","c","-","4",".","0">>, <<"m","i","t">>, <<"c","c","-","b","y","-","4",".","0"," ">>, <<"c","c","-","z","e","r","o">>,
              <<"c","o","n","s","t","r","u","c","t","o","r">>, <<"_","_","p","r","o","t","o","_","_">>, <<"t","o","s","t","r","i","n","g">> }

        \* metadata.license: absent, without an id, or with one of the ids.
        licenses ==
            {JsUndefined, [type |-> "object", s |-> <<"[","o","b","j","e","c","t"," ","O","b","j","e","c","t","]">>, id |-> JsUndefined],
             [type |-> "object", s |-> <<"[","o","b","j","e","c","t"," ","O","b","j","e","c","t","]">>, id |-> JsString(<<>>)]}
            \cup {[type |-> "object", s |-> <<"[","o","b","j","e","c","t"," ","O","b","j","e","c","t","]">>, id |-> JsString(l)] : l \in licenseIds}

        \* The creators of the tests, with the ORCID written as an id, as a URL in
        \* either case and with spaces around it, and creators without name or id.
        creatorSamples ==
            { [name |-> JsString(<<"M","i","e","b","a","c","h",","," ","L","e","a">>), orcid |-> JsString(<<"0","0","0","0","-","0","0","0","2","-","8","7","7","3","-","8","8","6","2">>)],
              [name |-> JsString(<<"S","m","i","t","h",","," ","J","o","h","n">>), orcid |-> JsUndefined],
              [name |-> JsString(<<"B","e","k","e","s","c","h","u","s",","," ","S","a","n","d","e","r">>),
               orcid |-> JsString(<<"h","t","t","p","s",":","/","/","o","r","c","i","d",".","o","r","g","/","0","0","0","0","-",
          "0","0","0","1","-","7","4","1","1","-","9","2","9","9">>)],
              [name |-> JsString(<<"D","o","e",","," ","J","a","n","e">>), orcid |-> JsString(<<"H","T","T","P",":","/","/","O","R","C","I","D",".","O","R","G","/","0","0","0","0","-","0",
          "0","0","3","-","1","2","3","4","-","5","6","7","8"," ">>)],
              [name |-> JsUndefined, orcid |-> JsUndefined],
              [name |-> JsString(<<>>), orcid |-> JsString(<<"h","t","t","p","s",":","/","/","o","r","c","i","d",".","o","r","g","/">>)] }

        \* metadata.creators: absent, null, or an array of at most MaxCreators.
        creatorLists ==
            {JsUndefined, JsNull}
            \cup {[type |-> "array", s |-> <<>>, items |-> items] :
                     items \in UNION {[1..k -> creatorSamples] : k \in 0..MaxCreators}}
    IN
        {[id |-> <<"1","2","3","4","5">>,
          metadata |-> [title |-> <<"T","e","s","t",":"," ","R","e","c","o","r","d"," ","<","1","/","2",">","?">>,
                        description |-> JsString(<<"<","b",">","A","<","/","b",">"," ","&","a","m","p",";"," ","B">>),
                        publication_date |-> <<"2","0","2","5","-","0","1","-","1","5">>,
                        creators |-> c,
                        license |-> l],
          files |-> << [key |-> <<"t","e","s","t",".","p","n","g">>,
                        links |-> [self |-> <<"h","t","t","p","s",":","/","/","z","e","n","o","d","o",".","o","r","g","/","r","e","c","o",
      "r","d","s","/","1","2","3","4","5","/","f","i","l","e","s","/","t","e","s","t",".","p","n",
      "g">>]],
                       [key |-> <<"d","a","t","a"," ","f","i","l","e",".","c","s","v">>,
                        links |-> [self |-> <<"h","t","t","p","s",":","/","/","z","e","n","o","d","o",".","o","r","g","/","a","p","i","/",
      "r","e","c","o","r","d","s","/","1","2","3","4","5","/","f","i","l","e","s","/","d","a","t",
      "a"," ","f","i","l","e",".","c","s","v","/","c","o","n","t","e","n","t">>]] >>] :
            c \in creatorLists, l \in licenses}

-----------------------------------------------------------------------------
(* App.svelte: the record card, rendered from the record fetched *)

\* fetchZenodoRecord has set `record` to the JSON of the response.
InitApp ==
    /\ record \in AppRecords
    /\ apc = "meta"
    /\ authors = <<>>
    /\ fileCards = <<>>
    /\ BudgeterIdle
    /\ TruncateIdle
    /\ ConvertIdle
    /\ ExtensionIdle
    /\ FetchIdle

\* The record-meta block: the authors shown.
RenderMeta ==
    /\ apc = "meta"
    /\ authors' = formatCreators(record.metadata.creators)
    /\ apc' = "files"
    /\ UNCHANGED <<record, fileCards, budgeterVars, truncateVars, convertVars, extensionVars,
                   fetchVars>>

\* {#each record.files as file}: the card of the next file, with the link
\* "Upload to Commons" or the text "Not Uploadable".
RenderFileCard ==
    /\ apc = "files"
    /\ Len(fileCards) < Len(record.files)
    /\ \E file \in {record.files[Len(fileCards) + 1]} :
       \E uploadUrl \in {buildUploadUrl(file, record)} :
           fileCards' = Append(fileCards,
               [key |-> file.key,
                uploadUrl |-> uploadUrl,
                action |-> IF Truthy(uploadUrl) THEN "Upload to Commons" ELSE "Not Uploadable"])
    /\ UNCHANGED <<record, apc, authors, budgeterVars, truncateVars, convertVars,
                   extensionVars, fetchVars>>

\* Every file has its card.
RenderDone ==
    /\ apc = "files"
    /\ Len(fileCards) = Len(record.files)
    /\ apc' = "done"
    /\ UNCHANGED <<record, authors, fileCards, budgeterVars, truncateVars, convertVars,
                   extensionVars, fetchVars>>

NextApp ==
    \/ RenderMeta
    \/ RenderFileCard
    \/ RenderDone

SpecApp == InitApp /\ [][NextApp]_vars


-----------------------------------------------------------------------------
(* The upload link of a file card *)

\* The keys of licenseMap, as written in the object literal.
licenseKeys == {licenseMap[k][1] : k \in 1..Len(licenseMap)}

\* The license id of the record rendered, in lower case; empty when the
\* record has no license or the license has no id.
recordLicenseId ==
    IF Truthy(record.metadata.license) /\ Truthy(record.metadata.license.id)
    THEN toLowerCase(record.metadata.license.id.s)
    ELSE <<>>

\* C12: a file card has an upload link exactly when the license id of the
\* record, in lower case, is a key of licenseMap; for every other record
\* buildUploadUrl returns null and the card says "Not Uploadable".
UploadLinkIffLicenseKey ==
    \A k \in 1..Len(fileCards) :
        IF recordLicenseId \in licenseKeys
        THEN /\ fileCards[k].uploadUrl.type = "string"
             /\ fileCards[k].action = "Upload to Commons"
        ELSE /\ fileCards[k].uploadUrl = JsNull
             /\ fileCards[k].action = "Not Uploadable"

-----------------------------------------------------------------------------
(* The authors of the record card *)

\* C13: formatCreators gives the empty string for a value that is no array
\* and for the empty array; otherwise the creators joined by "; ", each as
\* name ({{ORCID|id}}) when it has an ORCID, with a leading
\* http(s)://orcid.org/ removed whatever its case, and as the name alone
\* otherwise, entries that come out empty being left out: the text that
\* testFormatCreators of App.test.js gives.
AuthorsAsTested ==
    apc # "meta" => authors = testFormatCreators(record.metadata.creators)

-----------------------------------------------------------------------------
(* browser-extension/content.js: the "Send to Commons" buttons *)

ZENODO2COMMONS_URL == <<"h","t","t","p","s",":","/","/","l","u","b","i","a","n","a","t",".","g","i","t","h","u","b",
  ".","i","o","/","z","e","n","o","d","o","2","c","o","m","m","o","n","s","/">>

\* s.match(/prefix(\d+)/)[1] searched from position i on, where the regular
\* expression has one of the texts of prefixes before its group: the
\* leftmost match, the group taking every digit that follows; null when
\* there is no match.
RECURSIVE MatchedDigits(_, _, _)
MatchedDigits(s, i, prefixes) ==
    LET \* the last position of the run of digits that starts at position
        \* from; from - 1 when no digit stands there
        DigitsEnd(from) ==
            CHOOSE e \in (from - 1)..Len(s) :
                /\ \A k \in from..e : s[k] \in Digits
                /\ e = Len(s) \/ s[e + 1] \notin Digits
        here == {p \in prefixes :
                    /\ i + Len(p) - 1 <= Len(s)
                    /\ SubSeq(s, i, i + Len(p) - 1) = p
                    /\ DigitsEnd(i + Len(p)) >= i + Len(p)}
        prefix == CHOOSE p \in here : TRUE
    IN  IF i > Len(s) THEN JsNull
        ELSE IF here = {}
        THEN CHOOSE match \in {MatchedDigits(rest, next, prefixes) :
                                   rest \in {s}, next \in {i + 1}} : TRUE
        ELSE JsString(SubSeq(s, i + Len(prefix), DigitsEnd(i + Len(prefix))))

\* getZenodoRecordId(): from the path of the page, else from the DOI badge
getZenodoRecordId(pg) ==
    LET \* /\/records?\/(\d+)/
        urlMatch == MatchedDigits(pg.pathname, 1, {<<"/","r","e","c","o","r","d","s","/">>, <<"/","r","e","c","o","r","d","/">>})
        \* /zenodo[./](\d+)/ on the href of the badge
        doiMatch == MatchedDigits(pg.doiBadge.s, 1, {<<"z","e","n","o","d","o",".">>, <<"z","e","n","o","d","o","/">>})
    IN  CHOOSE recordId \in
            {IF fromUrl.type # "null" THEN fromUrl
             ELSE IF pg.doiBadge.type # "null" /\ fromDoi.type # "null" THEN fromDoi
             ELSE JsNull : fromUrl \in {urlMatch}, fromDoi \in {doiMatch}} : TRUE

\* createCommonsButton with /\d+/ for its test: a digit anywhere is enough.
createCommonsButtonUnanchored(recordId) ==
    LET id == JsToString(recordId)
    IN  IF ~(\E k \in 1..Len(id) : id[k] \in Digits) THEN JsNull
        ELSE [type |-> "element", s |-> <<>>,
              href |-> ZENODO2COMMONS_URL \o id,
              target |-> "_blank",
              rel |-> "noopener noreferrer",
              className |-> "ui button zenodo2commons-button",
              title |-> "Upload this record to Wikimedia Commons"]

\* createCommonsButton(recordId): null unless /^\d+$/ matches String(recordId)
createCommonsButton(recordId) ==
    LET id == JsToString(recordId)
    IN  IF ~(id # <<>> /\ \A k \in 1..Len(id) : id[k] \in Digits) THEN JsNull
        ELSE [type |-> "element", s |-> <<>>,
              href |-> ZENODO2COMMONS_URL \o id,
              target |-> "_blank",
              rel |-> "noopener noreferrer",
              className |-> "ui button zenodo2commons-button",
              title |-> "Upload this record to Wikimedia Commons"]

\* A button in the document: the element and the place it was put in.
Placed(button, className, kind, at) ==
    [href |-> button.href, className |-> className, kind |-> kind, at |-> at]

\* injectOnRecordPage(): what it returns and the buttons in the document
\* after it, btns being those before it.
injectOnRecordPage(pg, btns) ==
    LET \* the selectors of the older layouts whose container is in the page
        present == Where([k \in 1..5 |-> k \in pg.containers], 1, 5)
        inject(recordId, button) ==
            IF recordId.type = "null" THEN [ok |-> FALSE, buttons |-> btns]
            ELSE IF btns # <<>> THEN [ok |-> TRUE, buttons |-> btns]
            ELSE IF pg.titleSection # "absent"
            THEN IF button.type = "null" THEN [ok |-> FALSE, buttons |-> btns]
                 ELSE [ok |-> TRUE,
                       buttons |-> Append(btns,
                           Placed(button, "ui button zenodo2commons-button tiny compact",
                                  "title", 0))]
            ELSE IF present # <<>> /\ button.type # "null"
            THEN [ok |-> TRUE,
                  buttons |-> Append(btns, Placed(button, button.className,
                                                  "container", present[1]))]
            ELSE [ok |-> FALSE, buttons |-> btns]
    IN  CHOOSE returned \in
            {inject(recordId, createCommonsButton(recordId)) :
                recordId \in {getZenodoRecordId(pg)}} : TRUE

\* injectOnSearchResults() without the skip of an item that has a button.
injectOnSearchResultsAgain(pg, btns) ==
    LET recordId(i) ==
            IF pg.items[i].recordLink.type = "null" THEN JsNull
            ELSE MatchedDigits(pg.items[i].recordLink.s, 1, {<<"/","r","e","c","o","r","d","s","/">>, <<"/","r","e","c","o","r","d","/">>})
        \* the item gets a button
        serves(i) ==
            /\ recordId(i).type # "null"
            /\ createCommonsButton(recordId(i)).type # "null"
            /\ pg.items[i].header
    IN  CHOOSE returned \in
            {[ok |-> served # <<>>,
              buttons |-> btns \o [k \in 1..Len(served) |->
                  Placed(createCommonsButton(recordId(served[k])),
                         "ui tiny compact button zenodo2commons-button", "item", served[k])]] :
             served \in {Where([i \in 1..Len(pg.items) |-> serves(i)], 1, Len(pg.items))}} :
            TRUE

\* injectOnSearchResults(): what it returns and the buttons in the document
\* after it.
injectOnSearchResults(pg, btns) ==
    LET recordId(i) ==
            IF pg.items[i].recordLink.type = "null" THEN JsNull
            ELSE MatchedDigits(pg.items[i].recordLink.s, 1, {<<"/","r","e","c","o","r","d","s","/">>, <<"/","r","e","c","o","r","d","/">>})
        \* the item gets a button
        serves(i) ==
            /\ ~\E k \in 1..Len(btns) : btns[k].kind = "item" /\ btns[k].at = i
            /\ recordId(i).type # "null"
            /\ createCommonsButton(recordId(i)).type # "null"
            /\ pg.items[i].header
    IN  CHOOSE returned \in
            {[ok |-> served # <<>>,
              buttons |-> btns \o [k \in 1..Len(served) |->
                  Placed(createCommonsButton(recordId(served[k])),
                         "ui tiny compact button zenodo2commons-button", "item", served[k])]] :
             served \in {Where([i \in 1..Len(pg.items) |-> serves(i)], 1, Len(pg.items))}} :
            TRUE

\* injectButtons(): the buttons in the document after it
injectButtons(pg, btns) ==
    CHOOSE after \in
        {IF onRecordPage.ok THEN onRecordPage.buttons
         ELSE injectOnSearchResults(pg, btns).buttons :
            onRecordPage \in {injectOnRecordPage(pg, btns)}} : TRUE

-----------------------------------------------------------------------------
(* The pages the content script runs on *)

\* The result items of a page are at most MaxItems.
MaxItems == 2

\* A page of zenodo.org: the path, the DOI badge (the href of the first
\* anchor that a[href*="doi.org/10.5281/zenodo/"] selects, or null), the
\* title section (absent, or with or without a title in it), the selectors
\* of the older layouts that select a container, and the result items, each
\* with the href of its record link (or null) and with or without a header.
ExtensionPages ==
    LET pathnames == {<<"/","r","e","c","o","r","d","s","/","1","7","6","0","7","8","2","8">>, <<"/","r","e","c","o","r","d","/","4","2">>, <<"/","s","e","a","r","c","h">>, <<"/","r","e","c","o","r","d","s","/","a","b","c">>,
                      <<"/","c","o","m","m","u","n","i","t","i","e","s","/","n","f","d","i","4","b","i","o","i","m",
  "a","g","e","/","r","e","c","o","r","d","s">>}
        badges == {JsNull, JsString(<<"h","t","t","p","s",":","/","/","d","o","i",".","o","r","g","/","1","0",".","5","2","8","1",
  "/","z","e","n","o","d","o","/","1","7","6","0","7","8","2","8">>),
                   JsString(<<"h","t","t","p","s",":","/","/","d","o","i",".","o","r","g","/","1","0",".","5","2","8","1",
  "/","z","e","n","o","d","o","/">>)}
        itemSamples ==
            {[recordLink |-> JsString(<<"h","t","t","p","s",":","/","/","z","e","n","o","d","o",".","o","r","g","/","r","e","c","o",
  "r","d","s","/","7">>), header |-> TRUE],
             [recordLink |-> JsString(<<"h","t","t","p","s",":","/","/","z","e","n","o","d","o",".","o","r","g","/","r","e","c","o",
  "r","d","s","/","8">>), header |-> FALSE],
             [recordLink |-> JsString(<<"h","t","t","p","s",":","/","/","z","e","n","o","d","o",".","o","r","g","/","r","e","c","o",
  "r","d","s","/","n","e","w">>), header |-> TRUE],
             [recordLink |-> JsNull, header |-> TRUE]}
    IN  {[pathname |-> p, doiBadge |-> d, titleSection |-> t, containers |-> c, items |-> i] :
            p \in pathnames, d \in badges,
            t \in {"absent", "withTitle", "withoutTitle"},
            c \in {{}, {2, 4}},
            i \in UNION {[1..n -> itemSamples] : n \in 0..MaxItems}}

\* The content script starts on a page that is still loading.
InitExtension ==
    /\ page \in ExtensionPages
    /\ xpc = "loading"
    /\ buttons = <<>>
    /\ created = JsUndefined
    /\ timers = {}
    /\ observerTimeout = 0
    /\ BudgeterIdle
    /\ TruncateIdle
    /\ ConvertIdle
    /\ AppIdle
    /\ FetchIdle

\* DOMContentLoaded, or the script running on a document that is ready:
\* injectButtons runs, and the observer watches the document from then on.
DocumentReady ==
    /\ xpc = "loading"
    /\ buttons' = injectButtons(page, buttons)
    /\ xpc' = "observing"
    /\ UNCHANGED <<page, created, timers, observerTimeout, budgeterVars, truncateVars,
                   convertVars, appVars, fetchVars>>

\* The page hydrates: the record title section appears, and the observer
\* sees the document change.
Hydrate ==
    /\ xpc = "observing"
    /\ page.titleSection = "absent"
    /\ page' = [page EXCEPT !.titleSection = "withTitle"]
    /\ xpc' = "hydrated"
    /\ UNCHANGED <<buttons, created, timers, observerTimeout, budgeterVars, truncateVars,
                   convertVars, appVars, fetchVars>>

\* The timeout the observer sets after a change of the document:
\* injectButtons runs again.
ObserverTimeout ==
    /\ xpc \in {"observing", "hydrated"}
    /\ buttons' = injectButtons(page, buttons)
    /\ UNCHANGED <<page, xpc, created, timers, observerTimeout, budgeterVars, truncateVars,
                   convertVars, appVars, fetchVars>>

\* A call of createCommonsButton, whatever its argument: null, undefined,
\* or a string with or without characters that are no digits.
CallCreateCommonsButton ==
    /\ xpc \in {"observing", "hydrated"}
    /\ LET ButtonIds ==
            {JsNull, JsUndefined}
            \cup {JsString(id) : id \in {<<>>, <<"1","7","6","0","7","8","2","8">>, <<"0">>, <<"a","b","c">>, <<"1","2","a">>, <<" ","1","2">>, <<"-","1">>, <<"1",".","5">>,
                                         <<"1","/",".",".","/","e","v","i","l">>, <<"1", "2", NEWLINE>>}}
       IN  \E recordId \in ButtonIds :
               created' = [type |-> "call", s |-> <<>>, recordId |-> recordId,
                           button |-> createCommonsButton(recordId)]
    /\ UNCHANGED <<page, xpc, buttons, timers, observerTimeout, budgeterVars, truncateVars,
                   convertVars, appVars, fetchVars>>

NextExtension ==
    \/ DocumentReady
    \/ Hydrate
    \/ ObserverTimeout
    \/ CallCreateCommonsButton

SpecExtension == InitExtension /\ [][NextExtension]_vars

\* The id of the record a button in the document stands for: that of the
\* page for a button of the record page, that of the link of its item for a
\* button of a result item.
buttonRecordId(button) ==
    IF button.kind = "item"
    THEN MatchedDigits(page.items[button.at].recordLink.s, 1, {<<"/","r","e","c","o","r","d","s","/">>, <<"/","r","e","c","o","r","d","/">>})
    ELSE getZenodoRecordId(page)

\* /^\d+$/ matches the string id.
allDigits(id) == id # <<>> /\ \A k \in 1..Len(id) : id[k] \in Digits

\* C14: every button injected links to
\* https://lubianat.github.io/zenodo2commons/ followed by the record id, and
\* is created only for an id that consists of decimal digits alone; for any
\* other argument createCommonsButton returns null.
ButtonsLinkToRecord ==
    /\ \A k \in 1..Len(buttons) :
           /\ buttonRecordId(buttons[k]).type = "string"
           /\ allDigits(buttonRecordId(buttons[k]).s)
           /\ buttons[k].href = ZENODO2COMMONS_URL \o buttonRecordId(buttons[k]).s
    /\ created.type = "call" =>
           IF created.recordId.type = "string" /\ allDigits(created.recordId.s)
           THEN /\ created.button.type = "element"
                /\ created.button.href = ZENODO2COMMONS_URL \o created.recordId.s
           ELSE created.button.type = "null"

\* Buttons stand in the document, one of them in a result item, and
\* createCommonsButton has returned null for a string that has a digit in it.
ButtonsInjectedAndIdRefused ==
    /\ \E k \in 1..Len(buttons) : buttons[k].kind = "item"
    /\ created.type = "call"
    /\ created.recordId.type = "string"
    /\ \E k \in 1..Len(created.recordId.s) : created.recordId.s[k] \in Digits
    /\ created.button.type = "null"

-----------------------------------------------------------------------------
(* Step 2 of the ladder: the allowance of the tables *)

\* min(len(tables), floor((4000 - L - 100) * 0.4)), L being the length of
\* the URL built with the description and notes of the call and no tables.
tableAllowance ==
    LET L == Len(buildUrl(params, buildInfoTemplate(params, params.description,
                                                    params.notes, <<>>)))
        share == ((4000 - L - 100) * 4) \div 10
    IN  IF Len(params.tables) < share THEN Len(params.tables) ELSE share

\* C15: step 2 builds the URL with the tables truncated to the allowance
\* exactly when tables is not empty and the allowance is greater than 100;
\* otherwise it builds nothing and the ladder goes on to dropping the tables.
TruncatedTablesCandidateExactly ==
    [][pc = "strategy1" =>
          IF params.tables # <<>> /\ tableAllowance > 100
          THEN /\ url' = buildUrl(params, buildInfoTemplate(params, params.description,
                             params.notes, truncateTables(params.tables, tableAllowance)))
               /\ pc' = IF isUrlTooLong(url') THEN "strategy2" ELSE "done"
          ELSE url' = url /\ pc' = "strategy2"]_vars

\* Step 2 has built a candidate from tables cut to an allowance that is less
\* than their length, and has returned it.
TruncatedTablesCandidateReturned ==
    /\ pc = "done"
    /\ params.tables # <<>>
    /\ 100 < tableAllowance
    /\ tableAllowance < Len(params.tables)
    /\ result.url = buildUrl(params, buildInfoTemplate(params, params.description,
                        params.notes, truncateTables(params.tables, tableAllowance)))
    /\ result.url # noTablesUrl(params)

-----------------------------------------------------------------------------
(* truncateTables: what is cut, read from the characters of the argument *)

\* A call of truncateTables has returned for tables longer than maxLength.
tablesTruncated ==
    /\ call.fn = "truncateTables"
    /\ tpc # "ready"
    /\ call.arg.type = "string"
    /\ Len(call.arg.s) > call.maxLength

\* A line of the tables starts at position p.
lineStartsAt(p) == p = 1 \/ call.arg.s[p - 1] = NEWLINE

\* The position after the last character of the line that starts at p.
lineEndFrom(p) ==
    CHOOSE q \in p..(Len(call.arg.s) + 1) :
        /\ q = Len(call.arg.s) + 1 \/ call.arg.s[q] = NEWLINE
        /\ \A r \in p..(q - 1) : call.arg.s[r] # NEWLINE

\* The starts of the lines that hold the table-open marker: the blocks.
blockStarts ==
    Where([p \in 1..Len(call.arg.s) |->
              /\ lineStartsAt(p)
              /\ \E q \in p..(lineEndFrom(p) - Len(tableOpenMarker)) :
                     SubSeq(call.arg.s, q, q + Len(tableOpenMarker) - 1) = tableOpenMarker],
          1, Len(call.arg.s))

\* The lines before the line that starts at p, without the newline that
\* ends them.
linesBefore(p) == SubSeq(call.arg.s, 1, p - 2)

\* The first j blocks followed by the 'Tables truncated' notice.
firstBlocks(j) == linesBefore(blockStarts[j + 1]) \o truncatedNote

\* The numbers j of 1..k-1 for which the first j blocks and the notice fit.
fittingBlockCounts ==
    {j \in 1..(Len(blockStarts) - 1) : Len(firstBlocks(j)) <= call.maxLength}

\* C16: for tables of k > 1 blocks that are longer than maxLength, when the
\* first j blocks followed by the 'Tables truncated' notice fit maxLength for
\* some j of 1..k-1, truncateTables returns exactly that for the largest
\* such j; the first block is always kept.
LargestFittingBlocksKept ==
    (tablesTruncated /\ Len(blockStarts) > 1 /\ fittingBlockCounts # {}) =>
        LET j == CHOOSE n \in fittingBlockCounts : \A m \in fittingBlockCounts : m <= n
        IN  /\ j >= 1
            /\ ret.s = firstBlocks(j)

\* Of five blocks the first two are kept: three do not fit, one would too.
TwoOfFiveBlocksKept ==
    /\ tablesTruncated
    /\ Len(blockStarts) = 5
    /\ fittingBlockCounts = {1, 2}
    /\ ret.s = firstBlocks(2)

\* The starts of the lines that are a row separator or a cell line: the
\* lines that begin with | or with !, the last line set aside (it is the
\* closing |} that the cut puts back).
rowLineStarts ==
    {p \in 1..Len(call.arg.s) :
        /\ lineStartsAt(p)
        /\ call.arg.s[p] \in {"|", "!"}
        /\ lineEndFrom(p) <= Len(call.arg.s)}

\* The lines before the line that starts at p, closed by |} and followed by
\* the 'Table truncated' notice.
rowsBefore(p) == linesBefore(p) \o tableTruncationNote

\* The row lines before which the tables can be cut: what is left has the
\* table-open marker in it and fits maxLength.
acceptedRowCuts ==
    {p \in rowLineStarts :
        Includes(rowsBefore(p), tableOpenMarker) /\ Len(rowsBefore(p)) <= call.maxLength}

\* C17: when no whole-block removal fits, truncateTables returns the longest
\* prefix of lines that ends just before a row-separator or cell line (a line
\* that begins with | or !), closed by |} and followed by the 'Table
\* truncated' notice, among those that fit maxLength and still hold the
\* table-open marker.
LongestFittingRowsKept ==
    (tablesTruncated /\ fittingBlockCounts = {} /\ acceptedRowCuts # {}) =>
        LET p == CHOOSE c \in acceptedRowCuts : \A d \in acceptedRowCuts : d <= c
        IN  ret.s = rowsBefore(p)

\* Rows are cut where no whole block fits: of several cuts that fit the one
\* that keeps most lines is returned, and a cut that keeps more does not fit.
RowsCutWhenNoBlockFits ==
    /\ tablesTruncated
    /\ Len(blockStarts) > 1
    /\ fittingBlockCounts = {}
    /\ Cardinality(acceptedRowCuts) >= 2
    /\ \E p \in rowLineStarts : Len(rowsBefore(p)) > call.maxLength
    /\ \E p \in acceptedRowCuts : ret.s = rowsBefore(p)

\* The first two lines of the tables, closed by |} and followed by the
\* 'Table truncated' notice.
headerOnly ==
    LET secondLine == IF lineEndFrom(1) > Len(call.arg.s) THEN 1 ELSE lineEndFrom(1) + 1
    IN  SubSeq(call.arg.s, 1, lineEndFrom(secondLine) - 1) \o tableTruncationNote

\* The sentence that stands for tables left out.
omissionSentence ==
    <<"(","M","e","t","a","d","a","t","a"," ","t","a","b","l","e","s"," ","o","m","i","t","t",
      "e","d"," ","d","u","e"," ","t","o"," ","l","e","n","g","t","h"," ","c","o","n","s","t",
      "r","a","i","n","t","s","."," ","S","e","e"," ","f","u","l","l"," ","m","e","t","a","d",
      "a","t","a"," ","a","t"," ","s","o","u","r","c","e",".",")">>

-----------------------------------------------------------------------------
(* truncateDescription: what is kept, read from the characters of the argument *)

\* A call of truncateDescription has returned for a description longer than
\* maxLength.
descriptionTruncated ==
    /\ call.fn = "truncateDescription"
    /\ tpc # "ready"
    /\ call.arg.type = "string"
    /\ Len(call.arg.s) > call.maxLength

\* The positions of d where a double newline separates two paragraphs: in a
\* run of newlines the first and second, the third and fourth, and so on.
paragraphBreaks(d) ==
    LET newlinesBefore(p) ==
            Cardinality({q \in 1..(p - 1) : \A r \in q..(p - 1) : d[r] = NEWLINE})
    IN  Where([p \in 1..Len(d) |->
                  /\ p < Len(d)
                  /\ d[p] = NEWLINE
                  /\ d[p + 1] = NEWLINE
                  /\ newlinesBefore(p) % 2 = 0],
              1, Len(d))

\* The first j paragraphs of d with the double newlines between them.
firstParagraphs(d, j) ==
    IF j > Len(paragraphBreaks(d)) THEN d ELSE SubSeq(d, 1, paragraphBreaks(d)[j] - 1)

\* The numbers j for which the first j paragraphs of d and the truncation
\* notice fit maxLength.
fittingParagraphCounts(d) ==
    {j \in 1..(Len(paragraphBreaks(d)) + 1) :
        Len(firstParagraphs(d, j)) + Len(descTruncationNote) <= call.maxLength}

\* The sentences of the description.
sentencesOfDescription ==
    IF MatchSentences(call.arg.s) # <<>> THEN MatchSentences(call.arg.s) ELSE <<call.arg.s>>

\* The first n sentences of the description, one after the other.
firstSentences(n) == Join(SubSeq(sentencesOfDescription, 1, n), <<>>)

\* The numbers n for which the first n sentences and the ellipsis notice fit
\* maxLength.
fittingSentenceCounts ==
    {n \in 1..Len(sentencesOfDescription) :
        Len(firstSentences(n)) + Len(ellipsisNote) <= call.maxLength}

\* The largest number of a non-empty set of numbers.
Largest(S) == CHOOSE n \in S : \A m \in S : m <= n

\* The description cut after maxLength - len(ellipsis notice) characters and
\* the ellipsis notice, or the notice alone when that budget is not positive.
hardCut ==
    IF call.maxLength - Len(ellipsisNote) > 0
    THEN SubSeq(call.arg.s, 1, call.maxLength - Len(ellipsisNote)) \o ellipsisNote
    ELSE ellipsisNote

\* t from its first to its last character that is no white space.
trimmedText(t) ==
    LET inked == {i \in 1..Len(t) : ~IsSpace(t[i])}
    IN  IF inked = {} THEN <<>>
        ELSE SubSeq(t, CHOOSE i \in inked : \A k \in inked : i <= k,
                       CHOOSE i \in inked : \A k \in inked : k <= i)

\* The description without the empty paragraphs it begins with.
withoutEmptyLead ==
    LET lead == Cardinality({q \in 1..Len(call.arg.s) :
                                \A r \in 1..q : call.arg.s[r] = NEWLINE})
    IN  SubSeq(call.arg.s, 2 * (lead \div 2) + 1, Len(call.arg.s))

\* C19 as stated: for a description longer than maxLength, truncateDescription
\* returns the longest prefix of its paragraphs that fits with the truncation
\* notice, followed by that notice, if the first paragraph fits; otherwise the
\* longest prefix of sentences that fits with the ellipsis notice, followed by
\* it, if the first sentence fits; otherwise the first maxLength -
\* len(ellipsis notice) characters and the ellipsis notice, or that notice
\* alone.
ParagraphsThenSentencesThenHardCut ==
    descriptionTruncated =>
        ret.s = IF fittingParagraphCounts(call.arg.s) # {}
                THEN firstParagraphs(call.arg.s, Largest(fittingParagraphCounts(call.arg.s)))
                         \o descTruncationNote
                ELSE IF fittingSentenceCounts # {}
                THEN firstSentences(Largest(fittingSentenceCounts)) \o ellipsisNote
                ELSE hardCut

\* C19: for a description longer than maxLength, truncateDescription returns
\* the longest prefix of the paragraphs that follow the leading empty ones
\* that fits with the truncation notice, followed by that notice, if the first
\* of them fits; otherwise the longest prefix of sentences that fits with the
\* ellipsis notice, white space trimmed off its ends, followed by that notice,
\* if the first sentence fits; otherwise the first maxLength - len(ellipsis
\* notice) characters and the ellipsis notice, or that notice alone.
OwnParagraphsThenTrimmedSentencesThenHardCut ==
    descriptionTruncated =>
        ret.s = IF withoutEmptyLead # <<>> /\ fittingParagraphCounts(withoutEmptyLead) # {}
                THEN firstParagraphs(withoutEmptyLead,
                                     Largest(fittingParagraphCounts(withoutEmptyLead)))
                         \o descTruncationNote
                ELSE IF fittingSentenceCounts # {}
                THEN trimmedText(firstSentences(Largest(fittingSentenceCounts))) \o ellipsisNote
                ELSE hardCut

\* Sentences are kept where no paragraph fits, and the space the first of
\* them begins with is trimmed off.
TrimmedSentencesKept ==
    /\ descriptionTruncated
    /\ fittingParagraphCounts(withoutEmptyLead) = {}
    /\ Largest(fittingSentenceCounts \cup {0}) >= 2
    /\ trimmedText(firstSentences(Largest(fittingSentenceCounts)))
           # firstSentences(Largest(fittingSentenceCounts))
    /\ ret.s = trimmedText(firstSentences(Largest(fittingSentenceCounts))) \o ellipsisNote

-----------------------------------------------------------------------------
(* Apostrophe runs in the description *)

\* t has four apostrophes in a row somewhere.
hasLongApostropheRun(t) ==
    \E i \in 1..(Len(t) - 3) : \A k \in i..(i + 3) : t[k] = "'"

\* The length of the run of apostrophes that position i of t is in.
apostropheRunAt(t, i) ==
    Cardinality({j \in 1..i : \A k \in j..i : t[k] = "'"})
        + Cardinality({j \in (i + 1)..Len(t) : \A k \in i..j : t[k] = "'"})

\* t without its runs of four or more apostrophes, every other character
\* where it was.
withoutLongApostropheRuns(t) ==
    LET kept == Where([i \in 1..Len(t) |-> t[i] # "'" \/ apostropheRunAt(t, i) < 4],
                      1, Len(t))
    IN  [k \in 1..Len(kept) |-> t[kept[k]]]

\* C20 as stated: for every input the description returned by
\* cleanDescription has no run of four or more apostrophes, and step 4 leaves
\* the runs of exactly two and exactly three as they are.
NoLongApostropheRunInDescription ==
    /\ [](cpc = "done" => ~hasLongApostropheRun(converted.description))
    /\ [][cpc = "step4" => text' = withoutLongApostropheRuns(text)]_vars

\* C20: step 4 of cleanDescription removes the runs of four or more
\* apostrophes and leaves the runs of exactly two and exactly three as they
\* are, so the text has no run of four or more until the entities are
\* decoded; the description returned has none for every input without an
\* entity (without "&").
NoLongApostropheRunUntilEntitiesDecoded ==
    /\ [](cpc = "step5" => ~hasLongApostropheRun(text))
    /\ []((cpc = "done" /\ html.type = "string" /\ ~Includes(html.s, <<"&">>))
              => ~hasLongApostropheRun(converted.description))
    /\ [][cpc = "step4" => text' = withoutLongApostropheRuns(text)]_vars

\* cleanDescription has returned the text of an input whose markup, the
\* tags stripped, had a run of four or more apostrophes before the text.
LongApostropheRunRemoved ==
    /\ cpc = "done"
    /\ html.type = "string"
    /\ ~Includes(html.s, <<"&">>)
    /\ hasLongApostropheRun(stripTags(convertFormatting(htmlWithoutTables(html.s))))
    /\ converted.description # <<>>
    /\ ~hasLongApostropheRun(converted.description)

-----------------------------------------------------------------------------
(* The lines of the description *)

\* t has an empty line, or a line that begins or ends with white space:
\* t begins or ends with a newline or a space, or has a newline next to a
\* newline or to a space.
hasEmptyOrPaddedLine(t) ==
    /\ t # <<>>
    /\ \/ IsSpace(t[1])
       \/ IsSpace(t[Len(t)])
       \/ \E i \in 1..(Len(t) - 1) :
              \/ t[i] = NEWLINE /\ IsSpace(t[i + 1])
              \/ IsSpace(t[i]) /\ t[i + 1] = NEWLINE

\* C21: the description returned by cleanDescription has no empty line and no
\* line with white space at its start or end; two newlines never follow one
\* another in it.
DescriptionLinesTrimmed ==
    cpc \in {"step7", "done"} => ~hasEmptyOrPaddedLine(converted.description)

\* A description of two lines comes from a text that had a blank line
\* between them and spaces at the ends of its lines.
ParagraphBreakBecameNewline ==
    /\ cpc = "done"
    /\ \E i \in 1..(Len(text) - 1) : text[i] = NEWLINE /\ text[i + 1] = NEWLINE
    /\ \E i \in 1..(Len(text) - 1) : text[i] = " " /\ text[i + 1] = NEWLINE
    /\ \E i \in 1..Len(converted.description) : converted.description[i] = NEWLINE

-----------------------------------------------------------------------------
(* The blocks of the tables *)

\* The blocks that convertTableToWikiMarkup has emitted for the tables
\* extracted, in document order; a table without a row emits none.
emittedBlocks ==
    LET blocks == [k \in 1..Len(extractedTables) |->
                      convertTableToWikiMarkup(extractedTables[k])]
        emitted == Where([k \in 1..Len(blocks) |-> blocks[k] # <<>>], 1, Len(blocks))
    IN  [k \in 1..Len(emitted) |-> blocks[emitted[k]]]

\* A line of a block that a cell has written: ! or | and a space before the
\* content.
isCellLine(line) == Len(line) >= 2 /\ line[1] \in {"!", "|"} /\ line[2] = " "

\* C22: every block emitted by convertTableToWikiMarkup starts with the
\* line {| class="wikitable", ends with the line |}, and has a |- line only
\* between the lines of two emitted rows, never directly after the open
\* marker.
SeparatorsOnlyBetweenRows ==
    cpc = "done" =>
        \A b \in 1..Len(emittedBlocks) :
            LET lines == SplitLines(emittedBlocks[b])
            IN  /\ Len(lines) >= 2
                /\ lines[1] = tableOpenMarker
                /\ lines[Len(lines)] = <<"|", "}">>
                /\ \A i \in 1..Len(lines) :
                       lines[i] = <<"|", "-">> =>
                           /\ i > 1 /\ isCellLine(lines[i - 1])
                           /\ i < Len(lines) /\ isCellLine(lines[i + 1])

\* C23: the tables output is the converted blocks in document order with one
\* blank line between two of them: when it is not empty it begins with the
\* table-open marker and ends with |}, and no blank separator stands at its
\* start, at its end or next to another.
TablesJoinedByOneBlankLine ==
    cpc = "done" =>
        /\ converted.tables = Join(emittedBlocks, <<NEWLINE, NEWLINE>>)
        /\ converted.tables # <<>> =>
               /\ Len(converted.tables) >= Len(tableOpenMarker) + 2
               /\ SubSeq(converted.tables, 1, Len(tableOpenMarker)) = tableOpenMarker
               /\ SubSeq(converted.tables, Len(converted.tables) - 1, Len(converted.tables))
                      = <<"|", "}">>

-----------------------------------------------------------------------------
(* The content of a cell and the same content as prose *)

\* The input is one table of one row and one cell, and the pieces that
\* follow are the content of the cell: text and bold and italic tags.
oneCellOfInlineContent ==
    /\ Len(htmlTokens) >= 2
    /\ htmlTokens[1] = token.tableCellOpen
    /\ htmlTokens[Len(htmlTokens)] = token.tableCellClose
    /\ \A k \in 2..(Len(htmlTokens) - 1) :
           /\ ~Includes(htmlTokens[k], <<"<", "t">>)
           /\ ~Includes(htmlTokens[k], <<"<", "/", "t">>)

\* The content of the cell.
cellHtml == Concat(SubSeq(htmlTokens, 2, Len(htmlTokens) - 1))

\* The description that steps 2 to 6 of cleanDescription give for h, a text
\* without tables.
descriptionOfProse(h) ==
    CHOOSE description \in
        {cleanupWhitespace(decoded) : decoded \in
            {decodeEntities(unquoted) : unquoted \in
                {removeApostropheRuns(stripped) : stripped \in
                    {stripTags(formatted) : formatted \in {convertFormatting(h)}}}}} : TRUE

\* C24: for a cell whose content is text and inline bold and italic
\* elements, the text of the cell in tables is the description that
\* cleanDescription gives for the same content as prose.
CellTextAsProse ==
    (cpc = "done" /\ oneCellOfInlineContent) =>
        converted.tables = tableOpenMarker \o <<NEWLINE, "|", " ">>
                               \o descriptionOfProse(cellHtml) \o <<NEWLINE, "|", "}">>

-----------------------------------------------------------------------------
(* Emphasis elements in prose *)

\* The emphasis tags: the opening tag, the closing tag and the marker that
\* is written for either.
emphasisTags ==
    << << <<"<","s","t","r","o","n","g",">">>, <<"<","/","s","t","r","o","n","g",">">>, <<"'", "'", "'">> >>,
       << <<"<","b",">">>, <<"<","/","b",">">>, <<"'", "'", "'">> >>,
       << <<"<","e","m",">">>, <<"<","/","e","m",">">>, <<"'", "'">> >>,
       << <<"<","i",">">>, <<"<","/","i",">">>, <<"'", "'">> >> >>

\* Piece k of the input opens emphasis element e, the next piece is its
\* text and the one after closes it.
emphasisElementAt(k, e) ==
    /\ htmlTokens[k] = emphasisTags[e][1]
    /\ htmlTokens[k + 1] \in TextTokens
    /\ htmlTokens[k + 2] = emphasisTags[e][2]

\* C25: in prose, <strong>X</strong> and <b>X</b> with a non-empty X give
\* '''X''' in description, and <em>X</em> and <i>X</i> give ''X'', also where
\* the elements are one in the other or stand next to an apostrophe.
NonEmptyEmphasisKept ==
    (cpc = "done" /\ extractedTables = <<>>) =>
        \A k \in 1..(Len(htmlTokens) - 2) : \A e \in 1..Len(emphasisTags) :
            emphasisElementAt(k, e) =>
                Includes(converted.description,
                         emphasisTags[e][3] \o htmlTokens[k + 1] \o emphasisTags[e][3])

-----------------------------------------------------------------------------
(* The flag and what was removed *)

\* C26: whenever buildConstrainedUploadUrl returns wasTruncated = true, the
\* URL it returns is shorter than the URL built from the full description,
\* notes and tables, and so is another URL.
FlaggedUrlShorterThanFullUrl ==
    (pc = "done" /\ result.wasTruncated) =>
        /\ result.url # fullUrl(params)
        /\ Len(result.url) < Len(fullUrl(params))

-----------------------------------------------------------------------------
(* truncateTables: open and close markers of what is returned *)

\* The table markers of a text, line by line: "open" for a line that holds
\* the table-open marker, "close" for a line that is |}.
tableEvents(t) ==
    LET lines == SplitLines(t)
        marked == Where([i \in 1..Len(lines) |->
                            \/ Includes(lines[i], tableOpenMarker)
                            \/ lines[i] = <<"|", "}">>], 1, Len(lines))
    IN  [k \in 1..Len(marked) |->
            IF lines[marked[k]] = <<"|", "}">> THEN "close" ELSE "open"]

\* Every table that is opened is closed before the next one opens, and
\* nothing is closed that was not opened.
markersBalanced(ev) ==
    /\ Len(ev) % 2 = 0
    /\ \A k \in 1..Len(ev) : ev[k] = (IF k % 2 = 1 THEN "open" ELSE "close")

\* Blocks that each have one open marker line and one |} line.
wellFormedTables(t) == tableEvents(t) # <<>> /\ markersBalanced(tableEvents(t))

\* A call of truncateTables has returned for well-formed tables, and not
\* with the sentence that stands for the tables.
wellFormedTablesReturned ==
    /\ call.fn = "truncateTables"
    /\ tpc # "ready"
    /\ call.arg.type = "string"
    /\ wellFormedTables(call.arg.s)
    /\ ret.s # omissionSentence

\* The first e characters of the result are whole lines of the argument and
\* the rest holds no table line but |}.
keepsLinesUpTo(e) ==
    /\ e <= Len(ret.s)
    /\ e = Len(call.arg.s) \/ call.arg.s[e + 1] = NEWLINE
    /\ SubSeq(ret.s, 1, e) = SubSeq(call.arg.s, 1, e)
    /\ LET rest == SplitLines(SubSeq(ret.s, e + 1, Len(ret.s)))
       IN  \A i \in 1..Len(rest) :
               \/ rest[i] = <<"|", "}">>
               \/ rest[i] = <<>>
               \/ rest[i][1] \notin {"|", "!", "{"}

\* C27: for well-formed tables every result of truncateTables other than the
\* omission sentence has its open and close markers in pairs, open before
\* close, and its table lines are the first lines of the argument: no table
\* is left unclosed or closed twice.
TruncatedTablesStayBalanced ==
    wellFormedTablesReturned =>
        /\ markersBalanced(tableEvents(ret.s))
        /\ \E e \in 1..Len(call.arg.s) : keepsLinesUpTo(e)

\* Of a table without rows and a table with rows only the first is kept
\* and closed, the rows of a table having been cut.
EmptyTableKeptAndClosed ==
    /\ wellFormedTablesReturned
    /\ Len(call.arg.s) > call.maxLength
    /\ Len(tableEvents(call.arg.s)) = 4
    /\ Len(tableEvents(ret.s)) = 2
    /\ \E p \in acceptedRowCuts : ret.s = rowsBefore(p)

-----------------------------------------------------------------------------
(* App.svelte: fetchZenodoRecord, its callers and its responses *)

\* The calls of fetchZenodoRecord in a run are at most MaxRequests.
MaxRequests == 3

\* The texts typed into the input field: an id, a record URL, an id that
\* Zenodo does not have.
typedIds ==
    {<<"1","2","3","4","5">>,
     <<"h","t","t","p","s",":","/","/","z","e","n","o","d","o",".","o","r","g","/","r","e","c",
       "o","r","d","s","/","1","2","3","4","5">>,
     <<" ","9","9","9"," ">>}

\* What fetch and the API of Zenodo answer for an id: the JSON of the
\* record, of which the id is told here, or a response that is not ok; the
\* promise is rejected when the network fails.
responsesFor(id) ==
    {IF id \in {<<"1","7","6","0","7","8","2","8">>, <<"1","2","3","4","5">>}
     THEN [rejected |-> FALSE, ok |-> TRUE, statusText |-> <<"O","K">>,
           json |-> [id |-> id], message |-> <<>>]
     ELSE [rejected |-> FALSE, ok |-> FALSE,
           statusText |-> <<"N","o","t"," ","F","o","u","n","d">>,
           json |-> JsNull, message |-> <<>>],
     [rejected |-> TRUE, ok |-> FALSE, statusText |-> <<>>, json |-> JsNull,
      message |-> <<"F","a","i","l","e","d"," ","t","o"," ","f","e","t","c","h">>]}

\* zenodoId.replace(/.*\//, "").trim()
cleanId(z) ==
    LET slashes == Where([i \in 1..Len(z) |-> z[i] = "/"], 1, Len(z))
    IN  Trim(IF slashes = <<>> THEN z ELSE SubSeq(z, Last(slashes) + 1, Len(z)))

\* e.message in the catch block: the message of the rejection of fetch, or
\* `Failed to fetch record: ${res.statusText}` thrown for a response not ok
thrownMessage(res) ==
    IF res.rejected THEN res.message
    ELSE <<"F","a","i","l","e","d"," ","t","o"," ","f","e","t","c","h"," ","r","e","c","o","r",
           "d",":"," ">> \o res.statusText

\* fetchZenodoRecord() up to its first await, with z in the input field:
\* the flags are reset, the path of the page is set and the request is sent.
fetchZenodoRecord(z) ==
    /\ Len(requests) < MaxRequests
    /\ loading' = TRUE
    /\ error' = JsNull
    /\ record' = JsNull
    /\ pathname' = <<"/">> \o cleanId(z)
    /\ requests' = Append(requests, [id |-> cleanId(z), at |-> "fetch", res |-> JsUndefined])

\* The page is opened: the script block has run, onMount has not.
InitFetch ==
    /\ zenodoId = <<"1","7","6","0","7","8","2","8">>
    /\ record = JsNull
    /\ error = JsNull
    /\ loading = FALSE
    /\ pathname \in {<<"/">>, <<"/","1","2","3","4","5">>, <<"/","9","9","9">>}
    /\ requests = <<>>
    /\ apc = "onMount"
    /\ authors = <<>>
    /\ fileCards = <<>>
    /\ BudgeterIdle
    /\ TruncateIdle
    /\ ConvertIdle
    /\ ExtensionIdle

\* onMount: a numeric id in the path is fetched
OnMount ==
    /\ apc = "onMount"
    /\ apc' = "interactive"
    /\ LET match == MatchedDigits(pathname, 1, {<<"/">>})
       IN  IF match.type # "null"
           THEN zenodoId' = match.s /\ fetchZenodoRecord(match.s)
           ELSE UNCHANGED <<record, fetchVars>>
    /\ UNCHANGED <<authors, fileCards, budgeterVars, truncateVars, convertVars, extensionVars>>

\* bind:value={zenodoId}: the user writes another text into the field
InputValue ==
    /\ apc = "interactive"
    /\ \E z \in typedIds \ {zenodoId} : zenodoId' = z
    /\ UNCHANGED <<error, loading, pathname, requests, appVars, budgeterVars, truncateVars,
                   convertVars, extensionVars>>

\* on:keydown with the key Enter
KeydownEnter ==
    /\ apc = "interactive"
    /\ fetchZenodoRecord(zenodoId)
    /\ UNCHANGED <<zenodoId, apc, authors, fileCards, budgeterVars, truncateVars, convertVars,
                   extensionVars>>

\* on:click of the button Fetch Record, which is disabled while loading
ClickFetchRecord ==
    /\ apc = "interactive"
    /\ ~loading
    /\ fetchZenodoRecord(zenodoId)
    /\ UNCHANGED <<zenodoId, apc, authors, fileCards, budgeterVars, truncateVars, convertVars,
                   extensionVars>>

\* await fetch(...) of a call resumes: a response that is not ok and a
\* rejected promise end in catch and finally, a response that is ok goes on
\* to res.json().
FetchSettled ==
    \E k \in 1..Len(requests) :
        /\ requests[k].at = "fetch"
        /\ \E res \in responsesFor(requests[k].id) :
               IF res.ok
               THEN /\ requests' = [requests EXCEPT ![k].at = "json", ![k].res = res]
                    /\ UNCHANGED <<error, loading, record>>
               ELSE /\ requests' = [requests EXCEPT ![k].at = "returned", ![k].res = res]
                    /\ error' = JsString(thrownMessage(res))
                    /\ loading' = FALSE
                    /\ UNCHANGED record
        /\ UNCHANGED <<zenodoId, pathname, apc, authors, fileCards, budgeterVars, truncateVars,
                       convertVars, extensionVars>>

\* record = await res.json() of a call resumes, then finally.
JsonSettled ==
    \E k \in 1..Len(requests) :
        /\ requests[k].at = "json"
        /\ record' = requests[k].res.json
        /\ loading' = FALSE
        /\ requests' = [requests EXCEPT ![k].at = "returned"]
        /\ UNCHANGED <<zenodoId, error, pathname, apc, authors, fileCards, budgeterVars,
                       truncateVars, convertVars, extensionVars>>

NextFetch ==
    \/ OnMount
    \/ InputValue
    \/ KeydownEnter
    \/ ClickFetchRecord
    \/ FetchSettled
    \/ JsonSettled

SpecFetch == InitFetch /\ [][NextFetch]_vars

\* No call of fetchZenodoRecord is waiting for its response.
noRequestInFlight == requests # <<>> /\ \A k \in 1..Len(requests) : requests[k].at = "returned"

\* C28: once no request is in flight the page shows the outcome of the call
\* of fetchZenodoRecord made last and nothing else: the record of its
\* response or the message of its failure, never both a record and an error.
ShowsLatestRequestOnly ==
    noRequestInFlight =>
        LET res == Last(requests).res
        IN  /\ ~(record # JsNull /\ error # JsNull)
            /\ record = (IF res.ok THEN res.json ELSE JsNull)
            /\ error = (IF res.ok THEN JsNull ELSE JsString(thrownMessage(res)))

-----------------------------------------------------------------------------
(* content.js: the MutationObserver and its timeout *)

\* The MutationObserver callback without clearTimeout.
observerCallbackWithoutClear(ts, stored, by) ==
    LET id == CHOOSE n \in 1..(Cardinality(ts) + 2) :
                  n # stored /\ \A t \in ts : t.id # n
    IN  [timers |-> ts \cup {[id |-> id, by |-> by]}, timeout |-> id]

\* The MutationObserver callback: clearTimeout(observer.timeout), then
\* observer.timeout = setTimeout(injectButtons, 500).  ts are the timeouts
\* pending and stored is observer.timeout; the timeout set gets an id that
\* no timeout set before and still known has, and `by` tells whose change
\* of the document the observer saw.
observerCallback(ts, stored, by) ==
    LET cleared == {t \in ts : t.id # stored}
        id == CHOOSE n \in 1..(Cardinality(cleared) + 2) :
                  /\ n # stored
                  /\ \A t \in cleared : t.id # n
                  /\ \A m \in 1..(n - 1) : m = stored \/ \E t \in cleared : t.id = m
    IN  [timers |-> cleared \cup {[id |-> id, by |-> by]}, timeout |-> id]

\* The content script is about to run, on a document that is still loading
\* or on one that is loaded.
InitObserver ==
    /\ page \in ExtensionPages
    /\ xpc \in {"loading", "ready"}
    /\ buttons = <<>>
    /\ created = JsUndefined
    /\ timers = {}
    /\ observerTimeout = 0
    /\ BudgeterIdle
    /\ TruncateIdle
    /\ ConvertIdle
    /\ AppIdle
    /\ FetchIdle

\* document.readyState === 'loading': the listener of DOMContentLoaded is
\* added and the observer starts.
RunOnLoadingDocument ==
    /\ xpc = "loading"
    /\ xpc' = "listening"
    /\ UNCHANGED <<page, buttons, created, timers, observerTimeout, budgeterVars, truncateVars,
                   convertVars, appVars, fetchVars>>

\* The document is loaded: injectButtons() runs, and the observer starts
\* after it, so that it does not see what this run inserts.
RunOnLoadedDocument ==
    /\ xpc = "ready"
    /\ buttons' = injectButtons(page, buttons)
    /\ xpc' = "observing"
    /\ UNCHANGED <<page, created, timers, observerTimeout, budgeterVars, truncateVars,
                   convertVars, appVars, fetchVars>>

\* A run of injectButtons while the observer watches the document: what it
\* inserts is a change of document.body, for which the callback runs before
\* any other task.
ObservedRun(pending) ==
    \E after \in {injectButtons(page, buttons)} :
        /\ buttons' = after
        /\ IF after # buttons
           THEN \E set \in {observerCallback(pending, observerTimeout, "extension")} :
                    timers' = set.timers /\ observerTimeout' = set.timeout
           ELSE timers' = pending /\ UNCHANGED observerTimeout

\* DOMContentLoaded: injectButtons runs
ContentLoaded ==
    /\ xpc = "listening"
    /\ xpc' = "observing"
    /\ ObservedRun(timers)
    /\ UNCHANGED <<page, created, budgeterVars, truncateVars, convertVars, appVars, fetchVars>>

\* The result items that a page can hold.
resultItemSamples == {p.items[1] : p \in {q \in ExtensionPages : Len(q.items) = 1}}

\* The page changes the document: the record title section appears, or one
\* more result item does.  The observer callback runs.
DocumentChanges ==
    /\ xpc \in {"listening", "observing"}
    /\ \/ /\ page.titleSection = "absent"
          /\ \E section \in {"withTitle", "withoutTitle"} :
                 page' = [page EXCEPT !.titleSection = section]
       \/ /\ Len(page.items) < MaxItems
          /\ \E item \in resultItemSamples :
                 page' = [page EXCEPT !.items = Append(page.items, item)]
    /\ \E set \in {observerCallback(timers, observerTimeout, "page")} :
           timers' = set.timers /\ observerTimeout' = set.timeout
    /\ UNCHANGED <<xpc, buttons, created, budgeterVars, truncateVars, convertVars, appVars,
                   fetchVars>>

\* A timeout fires, 500 ms after it was set: injectButtons runs
TimeoutFires ==
    /\ xpc \in {"listening", "observing"}
    /\ \E t \in timers : ObservedRun(timers \ {t})
    /\ UNCHANGED <<page, xpc, created, budgeterVars, truncateVars, convertVars, appVars,
                   fetchVars>>

NextObserver ==
    \/ RunOnLoadingDocument
    \/ RunOnLoadedDocument
    \/ ContentLoaded
    \/ DocumentChanges
    \/ TimeoutFires

SpecObserver == InitObserver /\ [][NextObserver]_vars

\* A timeout that is set fires.
FairSpecObserver == SpecObserver /\ WF_vars(TimeoutFires)

-----------------------------------------------------------------------------
(* Buttons in the document *)

\* The buttons that injectOnRecordPage put into the document.
recordPageButtons == {k \in 1..Len(buttons) : buttons[k].kind \in {"title", "container"}}

\* The buttons in the i-th result item.
buttonsOfItem(i) == {k \in 1..Len(buttons) : buttons[k].kind = "item" /\ buttons[k].at = i}

-----------------------------------------------------------------------------
(* The observer and the insertions of the extension *)

\* The timeout pending was set for a change that injectButtons made.
ownTimeoutPending == \E t \in timers : t.by = "extension"

\* C30: at most one timeout is pending at any time; every change of the
\* document that the observer sees leaves exactly the timeout it sets, a new
\* one, pending; the run of a timeout that was set for an insertion of the
\* extension inserts nothing and sets no timeout; and in the end, the page
\* changing the document no more, no timeout is pending.
ObserverDebounced ==
    /\ [](Cardinality(timers) <= 1)
    /\ [][(xpc \in {"listening", "observing"} /\ (page' # page \/ buttons' # buttons)) =>
              /\ \E t \in timers' : timers' = {t} /\ t.id = observerTimeout'
              /\ observerTimeout' # observerTimeout]_vars
    /\ [][(ownTimeoutPending /\ page' = page /\ xpc' = xpc /\ timers' # timers) =>
              (buttons' = buttons /\ timers' = {})]_vars
    /\ <>[](timers = {})

\* The observer has seen the buttons inserted and a run of injectButtons is
\* scheduled for them.
RunScheduledForOwnInsertion ==
    /\ ownTimeoutPending
    /\ buttons # <<>>
    /\ xpc = "observing"

=============================================================================
